---- MODULE Spec2Model ----
(***************************************************************************)
(* A model of HEL (Host Expression Language): the value model and its      *)
(* comparison kernel, the evaluators (plain and traced), the script        *)
(* runtime and the trace record.                                           *)
(*                                                                         *)
(* Text is modelled as sequences of one-character strings, so that         *)
(* substring tests, `contains('.')`, formatting and sorting are computed   *)
(* rather than assumed.  Numbers are f64 values restricted to multiples    *)
(* of one half: Number(h) stands for the float h/2, NaN is a separate      *)
(* value.                                                                  *)
(***************************************************************************)
EXTENDS Integers, Sequences, FiniteSets, TLC

VARIABLES
    cmpLeft,      \* left operand handed to compare_new_values
    cmpRight,     \* right operand handed to compare_new_values
    cmpOp,        \* the Comparator of the last call ("none" before any call)
    cmpResult,    \* the bool the kernel returned
    evText,       \* the rule text handed to the entry points
    evFacts,      \* the host's facts (the resolver)
    evRegistry,   \* the built-ins registry the host attaches, if any
    evPlain,      \* outcome of the non-traced entry point that was called
    evTraced,     \* outcome of evaluate_with_trace
    astNode,      \* the AstNode handed to the two AST evaluators
    astFacts,     \* the facts of their EvalContext
    astPlain,     \* result of evaluate_ast_with_context on astNode
    astTraced,    \* result of evaluate_ast_with_trace on astNode
    scLines,      \* the lines of the script text
    scFacts,      \* the facts the script is evaluated against
    scOut,        \* outcome of evaluate_script on scLines
    scBase,       \* outcome of evaluate_script before a let line was inserted
    scEval,       \* outcome of evaluate on the joined lines of the script
    scParsed,     \* result of parse_script on scLines
    regProviders, \* BuiltinsRegistry.providers
    regHistory,   \* the providers handed to register so far, in call order
    regLast,      \* result of the last register call and the providers before it
    regQuery,     \* the last call or has_function request, the providers handed
                  \* to register before it, and its result
    pkgFs,        \* the directories under each search path, in search order
    pkgPackages,  \* PackageRegistry.packages
    pkgResult     \* the last load_package or resolve_all request and its result

cmpVars == <<cmpLeft, cmpRight, cmpOp, cmpResult>>
evVars == <<evText, evFacts, evRegistry, evPlain, evTraced>>
astVars == <<astNode, astFacts, astPlain, astTraced>>
scVars == <<scLines, scFacts, scOut, scBase, scEval, scParsed>>

regVars == <<regProviders, regHistory, regLast, regQuery>>
pkgVars == <<pkgFs, pkgPackages, pkgResult>>

vars == <<cmpVars, evVars, astVars, scVars, regVars, pkgVars>>

(***************************************************************************)
(* Bounds.                                                                 *)
(***************************************************************************)
\* longest list value / list literal enumerated
MaxLen == 2
\* most operands of an AND/OR chain in an enumerated rule
MaxOperands == 2

(***************************************************************************)
(* Value (lib.rs, enum Value).                                             *)
(***************************************************************************)
Null == [t |-> "Null"]
BoolV(b) == [t |-> "Bool", b |-> b]
StringV(s) == [t |-> "String", s |-> s]
NumberV(h) == [t |-> "Number", h |-> h, nan |-> FALSE]
NaN == [t |-> "Number", h |-> 0, nan |-> TRUE]
ListV(xs) == [t |-> "List", items |-> xs]
MapV(m) == [t |-> "Map", m |-> m]

Comparator == {"Eq", "Ne", "Gt", "Ge", "Lt", "Le", "Contains", "In"}

\* sequences over S of length 0..n
SeqUpTo(S, n) == UNION {[1..k -> S] : k \in 0..n}

\* str::contains: needle occurs in haystack as a contiguous run
StrContains(hay, needle) ==
    \E i \in 0..(Len(hay) - Len(needle)) :
        \A j \in 1..Len(needle) : hay[i + j] = needle[j]

(***************************************************************************)
(* compare_new_values (lib.rs 558-605).                                    *)
(***************************************************************************)
RECURSIVE compare_new_values(_, _, _)

compare_new_values(left, right, op) ==
    CASE op = "Eq" ->
            IF left.t = "Null" /\ right.t = "Null" THEN TRUE
            ELSE IF left.t = "Null" \/ right.t = "Null" THEN FALSE
            ELSE IF left.t = "Bool" /\ right.t = "Bool" THEN left.b = right.b
            ELSE IF left.t = "String" /\ right.t = "String" THEN left.s = right.s
            ELSE IF left.t = "Number" /\ right.t = "Number"
                 THEN IF left.nan \/ right.nan THEN FALSE ELSE left.h = right.h
            ELSE FALSE
      [] op = "Ne" -> ~compare_new_values(left, right, "Eq")
      [] op = "Contains" ->
            IF left.t = "String" /\ right.t = "String"
                 THEN StrContains(left.s, right.s)
            ELSE IF left.t = "List"
                 THEN \E i \in 1..Len(left.items) :
                          compare_new_values(left.items[i], right, "Eq")
            ELSE IF left.t = "Map" /\ right.t = "String"
                 THEN right.s \in DOMAIN left.m
            ELSE FALSE
      [] op = "In" ->
            IF right.t = "List"
                 THEN \E i \in 1..Len(right.items) :
                          compare_new_values(left, right.items[i], "Eq")
            ELSE IF left.t = "String" /\ right.t = "String"
                 THEN StrContains(right.s, left.s)
            ELSE FALSE
      [] op \in {"Gt", "Ge", "Lt", "Le"} ->
            IF left.t = "Number" /\ right.t = "Number"
            THEN IF left.nan \/ right.nan THEN FALSE
                 ELSE CASE op = "Gt" -> left.h > right.h
                        [] op = "Ge" -> left.h >= right.h
                        [] op = "Lt" -> left.h < right.h
                        [] op = "Le" -> left.h <= right.h
            ELSE FALSE

(***************************************************************************)
(* The values the kernel is exercised on.                                  *)
(***************************************************************************)
ScalarValues ==
    {Null, BoolV(TRUE), BoolV(FALSE),
     StringV(<<"a">>), StringV(<<"a", "b">>),
     NumberV(2), NumberV(3), NaN}

ElemValues == {Null, StringV(<<"a">>), NumberV(2), NaN}

FlatLists == {ListV(xs) : xs \in SeqUpTo(ElemValues, MaxLen)}

NestedLists ==
    {ListV(<<ListV(<<>>)>>), ListV(<<ListV(<<NumberV(2)>>)>>),
     ListV(<<ListV(<<NaN>>)>>)}

MapKeys == {<<"a">>, <<"k">>}

MapValues ==
    {MapV(f) : f \in UNION {[K -> {NumberV(2), NaN, ListV(<<>>)}] : K \in SUBSET MapKeys}}

CmpValues == ScalarValues \cup FlatLists \cup NestedLists \cup MapValues

\* v holds a NaN at some depth
RECURSIVE ContainsNaN(_)
ContainsNaN(v) ==
    CASE v.t = "Number" -> v.nan
      [] v.t = "List" -> \E i \in 1..Len(v.items) : ContainsNaN(v.items[i])
      [] v.t = "Map" -> \E k \in DOMAIN v.m : ContainsNaN(v.m[k])
      [] OTHER -> FALSE

(***************************************************************************)
(* Text.  A string is a sequence of one-character strings.                 *)
(***************************************************************************)
S_a == <<"a">>
S_b == <<"b">>
S_c == <<"c">>
S_d == <<"d">>
S_T == <<"T">>
S_U == <<"U">>
S_a_b == <<"a", ".", "b">>
S_b_T == <<"b", ".", "T">>
S_x == <<"x">>
S_X == <<"X">>
S_y == <<"y">>
S_f == <<"f">>
S_g == <<"g">>
S_k == <<"k">>
S_u == <<"u">>
S_ab == <<"a", "b">>
S_let == <<"l", "e", "t">>
S_core == <<"c", "o", "r", "e">>
S_Core == <<"C", "o", "r", "e">>
S_CORE == <<"C", "O", "R", "E">>
S_acme == <<"a", "c", "m", "e">>
S_Acme == <<"A", "c", "m", "e">>
S_Upper == <<"U", "p", "p", "e", "r">>
S_LEN == <<"L", "E", "N">>
S_len == <<"l", "e", "n">>
S_upper == <<"u", "p", "p", "e", "r">>
S_lower == <<"l", "o", "w", "e", "r">>
S_contains == <<"c", "o", "n", "t", "a", "i", "n", "s">>
S_true == <<"t", "r", "u", "e">>
S_false == <<"f", "a", "l", "s", "e">>
S_AND == <<"A", "N", "D">>
S_OR == <<"O", "R">>
S_CONTAINS == <<"C", "O", "N", "T", "A", "I", "N", "S">>
S_IN == <<"I", "N">>
S_dot == <<".">>
S_eq == <<"=">>
S_eqeq == <<"=", "=">>
S_ne == <<"!", "=">>
S_gt == <<">">>
S_ge == <<">", "=">>
S_lt == <<"<">>
S_le == <<"<", "=">>
S_quote == <<"\"">>
S_null == <<"n", "u", "l", "l">>
S_NaN == <<"N", "a", "N">>

\* byte order of the characters the model writes (String's Ord is bytewise)
CharCode(c) ==
    CASE c = " " -> 32 [] c = "!" -> 33 [] c = "\"" -> 34 [] c = "#" -> 35
      [] c = "(" -> 40 [] c = ")" -> 41 [] c = "," -> 44 [] c = "." -> 46
      [] c = "0" -> 48 [] c = "1" -> 49 [] c = "2" -> 50 [] c = "3" -> 51
      [] c = "4" -> 52 [] c = "5" -> 53 [] c = "6" -> 54 [] c = "7" -> 55
      [] c = "8" -> 56 [] c = "9" -> 57 [] c = ":" -> 58 [] c = "<" -> 60
      [] c = "=" -> 61 [] c = ">" -> 62 [] c = "?" -> 63
      [] c = "A" -> 65 [] c = "B" -> 66 [] c = "C" -> 67 [] c = "D" -> 68
      [] c = "E" -> 69 [] c = "F" -> 70 [] c = "I" -> 73 [] c = "L" -> 76
      [] c = "N" -> 78 [] c = "O" -> 79 [] c = "R" -> 82 [] c = "S" -> 83
      [] c = "T" -> 84 [] c = "U" -> 85 [] c = "X" -> 88
      [] c = "[" -> 91 [] c = "]" -> 93 [] c = "_" -> 95
      [] c = "a" -> 97 [] c = "b" -> 98 [] c = "c" -> 99 [] c = "d" -> 100
      [] c = "e" -> 101 [] c = "f" -> 102 [] c = "g" -> 103 [] c = "i" -> 105
      [] c = "k" -> 107 [] c = "l" -> 108 [] c = "n" -> 110 [] c = "o" -> 111
      [] c = "p" -> 112 [] c = "r" -> 114 [] c = "s" -> 115 [] c = "t" -> 116
      [] c = "u" -> 117 [] c = "w" -> 119 [] c = "x" -> 120 [] c = "y" -> 121
      [] c = "{" -> 123 [] c = "}" -> 125

\* String < String
RECURSIVE StrLess(_, _)
StrLess(s1, s2) ==
    IF s2 = <<>> THEN FALSE
    ELSE IF s1 = <<>> THEN TRUE
    ELSE IF CharCode(Head(s1)) # CharCode(Head(s2))
         THEN CharCode(Head(s1)) < CharCode(Head(s2))
    ELSE StrLess(Tail(s1), Tail(s2))

\* str::contains(char)
HasChar(s, c) == \E i \in 1..Len(s) : s[i] = c

\* Vec<String>::join(sep)
RECURSIVE Join(_, _)
Join(strs, sep) ==
    IF strs = <<>> THEN <<>>
    ELSE IF Len(strs) = 1 THEN strs[1]
    ELSE strs[1] \o sep \o Join(Tail(strs), sep)

\* str::trim_matches('"')
RECURSIVE TrimQuotes(_)
TrimQuotes(s) ==
    IF s # <<>> /\ Head(s) = "\"" THEN TrimQuotes(Tail(s))
    ELSE IF s # <<>> /\ s[Len(s)] = "\"" THEN TrimQuotes(SubSeq(s, 1, Len(s) - 1))
    ELSE s

DigitChars == <<"0", "1", "2", "3", "4", "5", "6", "7", "8", "9">>
DigitVal(c) == CHOOSE d \in 0..9 : DigitChars[d + 1] = c
IsDigit(c) == \E d \in 1..10 : DigitChars[d] = c

\* u64::to_string
RECURSIVE UIntToString(_)
UIntToString(n) ==
    IF n < 10 THEN <<DigitChars[n + 1]>>
    ELSE UIntToString(n \div 10) \o <<DigitChars[(n % 10) + 1]>>

\* f64::to_string of the float h/2 (Display prints 2.0 as "2")
FloatToString(h, nan) ==
    IF nan THEN S_NaN
    ELSE IF h % 2 = 0 THEN UIntToString(h \div 2)
    ELSE UIntToString(h \div 2) \o <<".", "5">>

\* the decimal value of a digit string
RECURSIVE DecValue(_)
DecValue(ds) ==
    IF ds = <<>> THEN 0
    ELSE 10 * DecValue(SubSeq(ds, 1, Len(ds) - 1)) + DigitVal(ds[Len(ds)])

RECURSIVE StripZeros(_)
StripZeros(ds) ==
    IF Len(ds) > 1 /\ Head(ds) = "0" THEN StripZeros(Tail(ds)) ELSE ds

\* u64::MAX written out: 18446744073709551615
U64MaxDigits ==
    <<"1", "8", "4", "4", "6", "7", "4", "4", "0", "7", "3", "7", "0", "9",
      "5", "5", "1", "6", "1", "5">>

None == [some |-> FALSE]
Some(x) == [some |-> TRUE, val |-> x]

(***************************************************************************)
(* parse_number (lib.rs 607-614), decimal literals: str::parse::<u64> is   *)
(* None exactly when the digits denote more than u64::MAX.                 *)
(***************************************************************************)
parse_number(val) ==
    LET ds == StripZeros(val) IN
    IF Len(ds) > Len(U64MaxDigits)
       \/ (Len(ds) = Len(U64MaxDigits) /\ StrLess(U64MaxDigits, ds))
    THEN None
    ELSE Some(DecValue(ds))

\* str::parse::<f64> of digits "." digit, on the multiples of one half
ParseFloat(s) ==
    LET dot == CHOOSE i \in 1..Len(s) : s[i] = "."
    IN  2 * DecValue(SubSeq(s, 1, dot - 1)) + (IF s[dot + 1] = "5" THEN 1 ELSE 0)

(***************************************************************************)
(* Rule text.  A text is a sequence of tokens, each with its class and its *)
(* characters; the text itself is the tokens joined by single spaces.      *)
(***************************************************************************)
TId(s) == [c |-> "id", s |-> s]
TStr(s) == [c |-> "str", s |-> S_quote \o s \o S_quote]
TInt(s) == [c |-> "int", s |-> s]
TFlt(s) == [c |-> "float", s |-> s]
TSym(s) == [c |-> "sym", s |-> s]
EOFTok == [c |-> "eof", s |-> <<>>]

T_and == TSym(S_AND)
T_or == TSym(S_OR)
T_eqeq == TSym(S_eqeq)
T_ne == TSym(S_ne)
T_gt == TSym(S_gt)
T_lt == TSym(S_lt)
T_ge == TSym(S_ge)
T_contains == TSym(S_CONTAINS)
T_in == TSym(S_IN)
T_assign == TSym(S_eq)
T_true == TSym(S_true)
T_false == TSym(S_false)
T_dot == TSym(S_dot)
T_lp == TSym(<<"(">>)
T_rp == TSym(<<")">>)
T_lb == TSym(<<"[">>)
T_rb == TSym(<<"]">>)
T_lc == TSym(<<"{">>)
T_rc == TSym(<<"}">>)
T_comma == TSym(<<",">>)
T_colon == TSym(<<":">>)
T_hash == TSym(<<"#">>)
T_let == TId(S_let)

Tok(toks, i) == IF i >= 1 /\ i <= Len(toks) THEN toks[i] ELSE EOFTok

\* the characters of tokens i..j-1 as they stand in the text
TextOf(toks, i, j) == Join([k \in 1..(j - i) |-> toks[i + k - 1].s], <<" ">>)

(***************************************************************************)
(* The grammar (hel.pest is not among the sources; spec 4.1 gives it, and  *)
(* build_ast names its rules).  A Pair is a node of pest's parse tree.     *)
(***************************************************************************)
Pair(rule, inner, text) == [rule |-> rule, inner |-> inner, text |-> text]
NoPair == Pair("none", <<>>, <<>>)
PFail(i) == [ok |-> FALSE, pair |-> NoPair, pos |-> i]
POk(pair, i) == [ok |-> TRUE, pair |-> pair, pos |-> i]

CmpOpTexts == {S_eqeq, S_ne, S_gt, S_ge, S_lt, S_le, S_CONTAINS, S_IN}
IsCmpOp(tok) == tok.c = "sym" /\ tok.s \in CmpOpTexts

RECURSIVE ParseCondition(_, _)
RECURSIVE ParseTerm(_, _)
RECURSIVE ParseItems(_, _, _, _, _)
RECURSIVE ParseEntries(_, _, _, _)
RECURSIVE ParseAndRest(_, _, _, _)
RECURSIVE ParseOrRest(_, _, _, _)

\* term ( "," term )* up to the closing token; an empty list only at first
ParseItems(toks, i, acc, close, first) ==
    LET After(t) ==
            IF ~t.ok THEN [ok |-> FALSE, items |-> <<>>, pos |-> i]
            ELSE IF Tok(toks, t.pos) = T_comma
                 THEN ParseItems(toks, t.pos + 1, Append(acc, t.pair), close, FALSE)
            ELSE IF Tok(toks, t.pos) = close
                 THEN [ok |-> TRUE, items |-> Append(acc, t.pair), pos |-> t.pos + 1]
            ELSE [ok |-> FALSE, items |-> <<>>, pos |-> i]
    IN  IF first /\ Tok(toks, i) = close THEN [ok |-> TRUE, items |-> acc, pos |-> i + 1]
        ELSE After(ParseTerm(toks, i))

\* string ":" term ( "," string ":" term )* up to "}"
ParseEntries(toks, i, acc, first) ==
    LET Entry(t) == Pair("map_entry",
                         <<Pair("string_literal", <<>>, toks[i].s), t.pair>>,
                         TextOf(toks, i, t.pos))
        After(t) ==
            IF ~t.ok THEN [ok |-> FALSE, items |-> <<>>, pos |-> i]
            ELSE IF Tok(toks, t.pos) = T_comma
                 THEN ParseEntries(toks, t.pos + 1, Append(acc, Entry(t)), FALSE)
            ELSE IF Tok(toks, t.pos) = T_rc
                 THEN [ok |-> TRUE, items |-> Append(acc, Entry(t)), pos |-> t.pos + 1]
            ELSE [ok |-> FALSE, items |-> <<>>, pos |-> i]
    IN  IF first /\ Tok(toks, i) = T_rc THEN [ok |-> TRUE, items |-> acc, pos |-> i + 1]
        ELSE IF Tok(toks, i).c # "str" \/ Tok(toks, i + 1) # T_colon
             THEN [ok |-> FALSE, items |-> <<>>, pos |-> i]
        ELSE After(ParseTerm(toks, i + 2))

\* term := literal | attribute | function_call | identifier | "(" condition ")"
ParseTerm(toks, i) ==
    LET IdPair(k) == Pair("identifier", <<>>, toks[k].s)
        Wrap(r) == IF r.ok
                   THEN POk(Pair("term", <<Pair("primary", <<r.pair>>, r.pair.text)>>,
                                 r.pair.text), r.pos)
                   ELSE r
        Lit(rule, t) == POk(Pair("literal", <<Pair(rule, <<>>, t.s)>>, t.s), i + 1)
        Call(inner, a) ==
            IF a.ok
            THEN POk(Pair("function_call", inner \o a.items, TextOf(toks, i, a.pos)), a.pos)
            ELSE PFail(i)
        Paren(c) ==
            IF c.ok /\ Tok(toks, c.pos) = T_rp
            THEN POk(Pair("parenthesized", <<c.pair>>, TextOf(toks, i, c.pos + 1)), c.pos + 1)
            ELSE PFail(i)
        Coll(rule, a) ==
            IF a.ok
            THEN POk(Pair("literal", <<Pair(rule, a.items, TextOf(toks, i, a.pos))>>,
                          TextOf(toks, i, a.pos)), a.pos)
            ELSE PFail(i)
        Primary(t) ==
            CASE t = T_lp -> Paren(ParseCondition(toks, i + 1))
              [] t = T_lb -> Coll("list_literal", ParseItems(toks, i + 1, <<>>, T_rb, TRUE))
              [] t = T_lc -> Coll("map_literal", ParseEntries(toks, i + 1, <<>>, TRUE))
              [] t.c = "str" -> Lit("string_literal", t)
              [] t.c = "float" -> Lit("float_literal", t)
              [] t.c = "int" -> Lit("number_literal", t)
              [] t = T_true \/ t = T_false -> Lit("boolean_literal", t)
              [] t.c = "id" ->
                    IF Tok(toks, i + 1) = T_dot /\ Tok(toks, i + 2).c = "id"
                    THEN IF Tok(toks, i + 3) = T_lp
                         THEN Call(<<IdPair(i), IdPair(i + 2)>>,
                                   ParseItems(toks, i + 4, <<>>, T_rp, TRUE))
                         ELSE POk(Pair("attribute_access", <<IdPair(i), IdPair(i + 2)>>,
                                       TextOf(toks, i, i + 3)), i + 3)
                    ELSE IF Tok(toks, i + 1) = T_lp
                         THEN Call(<<IdPair(i)>>, ParseItems(toks, i + 2, <<>>, T_rp, TRUE))
                    ELSE POk(IdPair(i), i + 1)
              [] OTHER -> PFail(i)
    IN  Wrap(Primary(Tok(toks, i)))

\* comparison := term ( cmp_op term )?
ParseComparison(toks, i) ==
    LET Both(l, r) ==
            IF ~r.ok THEN PFail(i)
            ELSE POk(Pair("comparison_term",
                          <<Pair("comparison",
                                 <<l.pair, Pair("comparator", <<>>, toks[l.pos].s), r.pair>>,
                                 TextOf(toks, i, r.pos))>>,
                          TextOf(toks, i, r.pos)), r.pos)
        After(l) ==
            IF ~l.ok THEN l
            ELSE IF IsCmpOp(Tok(toks, l.pos)) THEN Both(l, ParseTerm(toks, l.pos + 1))
            ELSE POk(Pair("comparison_term", <<l.pair>>, l.pair.text), l.pos)
    IN  After(ParseTerm(toks, i))

\* logical_and := comparison ( "AND" comparison )*
ParseAndRest(toks, start, i, acc) ==
    LET After(c) ==
            IF ~c.ok THEN PFail(start)
            ELSE IF Tok(toks, c.pos) = T_and
                 THEN ParseAndRest(toks, start, c.pos + 1,
                                   acc \o <<c.pair, Pair("and_op", <<>>, S_AND)>>)
            ELSE POk(Pair("logical_and", Append(acc, c.pair), TextOf(toks, start, c.pos)),
                     c.pos)
    IN  After(ParseComparison(toks, i))

\* logical_or := logical_and ( "OR" logical_and )*
ParseOrRest(toks, start, i, acc) ==
    LET After(a) ==
            IF ~a.ok THEN PFail(start)
            ELSE IF Tok(toks, a.pos) = T_or
                 THEN ParseOrRest(toks, start, a.pos + 1,
                                  acc \o <<a.pair, Pair("or_op", <<>>, S_OR)>>)
            ELSE POk(Pair("logical_or", Append(acc, a.pair), TextOf(toks, start, a.pos)),
                     a.pos)
    IN  After(ParseAndRest(toks, i, i, <<>>))

\* condition := logical_or
ParseCondition(toks, i) ==
    LET After(o) == IF o.ok THEN POk(Pair("condition", <<o.pair>>, o.pair.text), o.pos) ELSE o
    IN  After(ParseOrRest(toks, i, i, <<>>))

\* HelParser::parse(Rule::condition, input): the whole input is one condition
HelParser_parse(toks) ==
    LET After(c) == IF c.ok /\ c.pos = Len(toks) + 1 THEN c ELSE PFail(1)
    IN  After(ParseCondition(toks, 1))

(***************************************************************************)
(* AstNode (lib.rs 23-55).                                                 *)
(***************************************************************************)
A_Bool(b) == [k |-> "Bool", bv |-> b]
A_String(s) == [k |-> "String", sv |-> s]
A_Number(n) == [k |-> "Number", u |-> n]
A_Float(h) == [k |-> "Float", fh |-> h]
A_Identifier(s) == [k |-> "Identifier", name |-> s]
A_Attribute(o, f) == [k |-> "Attribute", object |-> o, field |-> f]
A_Comparison(l, op, r) == [k |-> "Comparison", left |-> l, op |-> op, right |-> r]
A_And(ns) == [k |-> "And", nodes |-> ns]
A_Or(ns) == [k |-> "Or", nodes |-> ns]
A_ListLiteral(es) == [k |-> "ListLiteral", elements |-> es]
A_MapLiteral(es) == [k |-> "MapLiteral", entries |-> es]
A_FunctionCall(ns, n, as) == [k |-> "FunctionCall", namespace |-> ns, fname |-> n, args |-> as]

\* parse_comparator (lib.rs 400-416)
parse_comparator(text) ==
    CASE text = S_eqeq -> "Eq"
      [] text = S_ne -> "Ne"
      [] text = S_gt -> "Gt"
      [] text = S_ge -> "Ge"
      [] text = S_lt -> "Lt"
      [] text = S_le -> "Le"
      [] text = S_CONTAINS -> "Contains"
      [] text = S_IN -> "In"

(***************************************************************************)
(* build_ast (lib.rs 273-398).  The result says whether the call panicked  *)
(* and, if not, holds the node.                                            *)
(***************************************************************************)
Built(n) == [panic |-> FALSE, node |-> n]
BuildPanic == [panic |-> TRUE, node |-> A_Bool(FALSE)]

RECURSIVE build_ast(_)

\* build_ast over a sequence of pairs, as the iterator chains do
BuildAll(pairs) ==
    LET bs == [i \in 1..Len(pairs) |-> build_ast(pairs[i])] IN
    IF \E i \in 1..Len(pairs) : bs[i].panic THEN [panic |-> TRUE, nodes |-> <<>>]
    ELSE [panic |-> FALSE, nodes |-> [i \in 1..Len(pairs) |-> bs[i].node]]

IsLogicalOp(q) == q.rule \in {"and_op", "or_op"}

build_ast(pair) ==
    CASE pair.rule = "condition" -> build_ast(pair.inner[1])
      [] pair.rule \in {"logical_and", "logical_or"} ->
            LET b == BuildAll(SelectSeq(pair.inner, LAMBDA q : ~IsLogicalOp(q))) IN
            IF b.panic THEN BuildPanic
            ELSE IF pair.rule = "logical_and" THEN Built(A_And(b.nodes))
            ELSE Built(A_Or(b.nodes))
      [] pair.rule = "comparison" ->
            LET l == build_ast(pair.inner[1])
                r == build_ast(pair.inner[3])
            IN  IF l.panic \/ r.panic THEN BuildPanic
                ELSE Built(A_Comparison(l.node, parse_comparator(pair.inner[2].text), r.node))
      [] pair.rule = "attribute_access" ->
            Built(A_Attribute(pair.inner[1].text, pair.inner[2].text))
      [] pair.rule = "literal" -> build_ast(pair.inner[1])
      [] pair.rule = "string_literal" -> Built(A_String(TrimQuotes(pair.text)))
      [] pair.rule = "float_literal" -> Built(A_Float(ParseFloat(pair.text)))
      [] pair.rule = "number_literal" ->
            LET n == parse_number(pair.text) IN
            IF n.some THEN Built(A_Number(n.val)) ELSE BuildPanic
      [] pair.rule = "boolean_literal" -> Built(A_Bool(pair.text = S_true))
      [] pair.rule = "list_literal" ->
            LET b == BuildAll(pair.inner) IN
            IF b.panic THEN BuildPanic ELSE Built(A_ListLiteral(b.nodes))
      [] pair.rule = "map_literal" ->
            LET es == SelectSeq(pair.inner, LAMBDA q : q.rule = "map_entry")
                vs == BuildAll([i \in 1..Len(es) |-> es[i].inner[2]])
            IN  IF vs.panic THEN BuildPanic
                ELSE Built(A_MapLiteral(
                        [i \in 1..Len(es) |->
                            [key |-> TrimQuotes(es[i].inner[1].text), value |-> vs.nodes[i]]]))
      [] pair.rule = "function_call" ->
            LET first == pair.inner[1]
                hasSecond == Len(pair.inner) >= 2
                args == BuildAll(IF hasSecond THEN SubSeq(pair.inner, 3, Len(pair.inner))
                                 ELSE <<>>)
            IN  IF args.panic THEN BuildPanic
                ELSE IF hasSecond
                     THEN Built(A_FunctionCall(Some(first.text), pair.inner[2].text, args.nodes))
                ELSE Built(A_FunctionCall(None, first.text, args.nodes))
      [] pair.rule \in {"identifier", "variable", "symbolic"} ->
            Built(A_Identifier(pair.text))
      [] pair.rule \in {"primary", "comparison_term", "term", "parenthesized"} ->
            build_ast(pair.inner[1])

\* parse_rule (lib.rs 268-271): expect() panics on a parse error
parse_rule(input) ==
    LET Expect(pairs) == IF ~pairs.ok THEN BuildPanic ELSE build_ast(pairs.pair)
    IN  Expect(HelParser_parse(input))

\* validate_expression (lib.rs 638-654): TRUE for Ok(()), FALSE for the ParseError
validate_expression(expr) == HelParser_parse(expr).ok

\* the evaluation and parse errors: EvalError (lib.rs 136-149) and HelError
\* (lib.rs 178-191) by kind and originating context
Error(kind, ctx) == [kind |-> kind, ctx |-> ctx]
NoError == Error("none", "")

\* impl From<EvalError> for HelError (lib.rs 253-266)
HelError_from(e) ==
    CASE e.kind = "ParseError" -> Error("ParseError", e.ctx)
      [] e.kind = "TypeMismatch" -> Error("TypeError", e.ctx)
      [] e.kind = "UnknownAttribute" -> Error("UnknownAttribute", e.ctx)
      [] e.kind = "InvalidOperation" -> Error("EvaluationError", e.ctx)

\* parse_expression (lib.rs 668-671): Err, or Ok(parse_rule(expr)), or a panic
parse_expression(expr) ==
    LET OkOf(b) ==
            IF b.panic THEN [tag |-> "Panic", err |-> NoError, node |-> A_Bool(FALSE)]
            ELSE [tag |-> "Ok", err |-> NoError, node |-> b.node]
    IN  IF ~validate_expression(expr)
        THEN [tag |-> "Err", err |-> Error("ParseError", "syntax"), node |-> A_Bool(FALSE)]
        ELSE OkOf(parse_rule(expr))

(***************************************************************************)
(* FactsEvalContext (lib.rs 687-732): facts keyed by "object.field".       *)
(***************************************************************************)
FactKey(object, field) == object \o S_dot \o field

resolve_attr(facts, object, field) ==
    IF FactKey(object, field) \in DOMAIN facts
    THEN Some(facts[FactKey(object, field)])
    ELSE None

(***************************************************************************)
(* BuiltinsRegistry (builtins.rs 60-132) and the core provider             *)
(* (builtins.rs 148-259).  A registry maps a namespace to its function     *)
(* table; a table maps a function name to the built-in it names.           *)
(***************************************************************************)
LowerChar(c) ==
    CASE c = "A" -> "a" [] c = "B" -> "b" [] c = "C" -> "c" [] c = "D" -> "d"
      [] c = "E" -> "e" [] c = "F" -> "f" [] c = "I" -> "i" [] c = "L" -> "l"
      [] c = "N" -> "n" [] c = "O" -> "o" [] c = "R" -> "r" [] c = "S" -> "s"
      [] c = "T" -> "t" [] c = "U" -> "u" [] c = "X" -> "x"
      [] OTHER -> c

UpperChar(c) ==
    CASE c = "a" -> "A" [] c = "b" -> "B" [] c = "c" -> "C" [] c = "d" -> "D"
      [] c = "e" -> "E" [] c = "f" -> "F" [] c = "i" -> "I" [] c = "l" -> "L"
      [] c = "n" -> "N" [] c = "o" -> "O" [] c = "r" -> "R" [] c = "s" -> "S"
      [] c = "t" -> "T" [] c = "u" -> "U" [] c = "x" -> "X"
      [] OTHER -> c

to_lowercase(s) == [i \in 1..Len(s) |-> LowerChar(s[i])]
to_uppercase(s) == [i \in 1..Len(s) |-> UpperChar(s[i])]

\* values_equal (builtins.rs 248-259)
RECURSIVE values_equal(_, _)
values_equal(a, b) ==
    IF a.t = "Null" /\ b.t = "Null" THEN TRUE
    ELSE IF a.t = "Bool" /\ b.t = "Bool" THEN a.b = b.b
    ELSE IF a.t = "String" /\ b.t = "String" THEN a.s = b.s
    ELSE IF a.t = "Number" /\ b.t = "Number"
         THEN ~a.nan /\ ~b.nan /\ a.h = b.h
    ELSE IF a.t = "List" /\ b.t = "List"
         THEN /\ Len(a.items) = Len(b.items)
              /\ \A i \in 1..Len(a.items) : values_equal(a.items[i], b.items[i])
    ELSE FALSE

V_Ok(v) == [ok |-> TRUE, val |-> v, err |-> NoError]
V_Err(e) == [ok |-> FALSE, val |-> Null, err |-> e]

\* the closures of CoreBuiltinsProvider::get_builtins (builtins.rs 154-244)
core_len(args) ==
    IF Len(args) # 1 THEN V_Err(Error("InvalidOperation", "core.len expects 1 argument"))
    ELSE IF args[1].t = "List" THEN V_Ok(NumberV(2 * Len(args[1].items)))
    ELSE IF args[1].t = "String" THEN V_Ok(NumberV(2 * Len(args[1].s)))
    ELSE V_Err(Error("TypeMismatch", "core.len"))

core_contains(args) ==
    IF Len(args) # 2
    THEN V_Err(Error("InvalidOperation", "core.contains expects 2 arguments"))
    ELSE IF args[1].t = "List"
         THEN V_Ok(BoolV(\E i \in 1..Len(args[1].items) :
                             values_equal(args[1].items[i], args[2])))
    ELSE IF args[1].t = "String"
         THEN IF args[2].t = "String"
              THEN V_Ok(BoolV(StrContains(args[1].s, args[2].s)))
              ELSE V_Ok(BoolV(FALSE))
    ELSE V_Err(Error("TypeMismatch", "core.contains"))

core_upper(args) ==
    IF Len(args) # 1 THEN V_Err(Error("InvalidOperation", "core.upper expects 1 argument"))
    ELSE IF args[1].t = "String" THEN V_Ok(StringV(to_uppercase(args[1].s)))
    ELSE V_Err(Error("TypeMismatch", "core.upper"))

core_lower(args) ==
    IF Len(args) # 1 THEN V_Err(Error("InvalidOperation", "core.lower expects 1 argument"))
    ELSE IF args[1].t = "String" THEN V_Ok(StringV(to_lowercase(args[1].s)))
    ELSE V_Err(Error("TypeMismatch", "core.lower"))

\* calling a BuiltinFn
ApplyBuiltin(fn, args) ==
    CASE fn = "core.len" -> core_len(args)
      [] fn = "core.contains" -> core_contains(args)
      [] fn = "core.upper" -> core_upper(args)
      [] fn = "core.lower" -> core_lower(args)

\* CoreBuiltinsProvider (builtins.rs 148-245)
CoreBuiltinsProvider ==
    [namespace |-> S_core,
     builtins |-> (S_len :> "core.len") @@ (S_contains :> "core.contains")
                  @@ (S_upper :> "core.upper") @@ (S_lower :> "core.lower")]

\* BuiltinsRegistry::new (builtins.rs 68-72)
BuiltinsRegistry_new == <<>>

\* a register that replaces the functions of a namespace already present
BuiltinsRegistry_register_Overwrite(providers, provider) ==
    [ok |-> to_lowercase(provider.namespace) \notin DOMAIN providers,
     providers |-> (to_lowercase(provider.namespace) :> provider.builtins) @@ providers]

\* BuiltinsRegistry::register (builtins.rs 76-87)
BuiltinsRegistry_register(providers, provider) ==
    LET namespace == to_lowercase(provider.namespace) IN
    IF namespace \in DOMAIN providers
    THEN [ok |-> FALSE, providers |-> providers]
    ELSE [ok |-> TRUE, providers |-> providers @@ (namespace :> provider.builtins)]

\* BuiltinsRegistry::call (builtins.rs 98-109)
BuiltinsRegistry_call(providers, namespace, function_name, args) ==
    LET ns == to_lowercase(namespace)
        fnm == to_lowercase(function_name)
    IN  IF ns \notin DOMAIN providers
        THEN V_Err(Error("InvalidOperation", "Unknown namespace"))
        ELSE IF fnm \notin DOMAIN providers[ns]
             THEN V_Err(Error("InvalidOperation", "Unknown function"))
        ELSE ApplyBuiltin(providers[ns][fnm], args)

\* BuiltinsRegistry::has_function (builtins.rs 112-120)
BuiltinsRegistry_has_function(providers, namespace, function_name) ==
    LET ns == to_lowercase(namespace)
        fnm == to_lowercase(function_name)
    IN  ns \in DOMAIN providers /\ fnm \in DOMAIN providers[ns]

(***************************************************************************)
(* EvalContext (lib.rs 94-133).                                            *)
(***************************************************************************)
EvalContext_new(resolver) ==
    [resolver |-> resolver, builtins |-> None, variables |-> <<>>]

EvalContext_with_builtins(resolver, builtins) ==
    [resolver |-> resolver, builtins |-> Some(builtins), variables |-> <<>>]

\* BTreeMap::insert: a later insert under the same key replaces the value
with_variable(ctx, name, value) ==
    [ctx EXCEPT !.variables =
        [n \in (DOMAIN ctx.variables) \cup {name} |->
            IF n = name THEN value ELSE ctx.variables[n]]]

\* a lookup that ignores the case of the name
get_variable_AnyCase(ctx, name) ==
    IF \E n \in DOMAIN ctx.variables : to_lowercase(n) = to_lowercase(name)
    THEN Some(ctx.variables[CHOOSE n \in DOMAIN ctx.variables :
                                to_lowercase(n) = to_lowercase(name)])
    ELSE None

get_variable(ctx, name) ==
    IF name \in DOMAIN ctx.variables THEN Some(ctx.variables[name]) ELSE None

(***************************************************************************)
(* The evaluator (lib.rs 439-556).  A result is Ok(val) or Err(err); its   *)
(* log lists, in call order, the Comparison nodes on which                 *)
(* compare_new_values was called while computing it.                       *)
(***************************************************************************)
R_Ok(v, log) == [ok |-> TRUE, val |-> v, err |-> NoError, log |-> log]
R_Err(e, log) == [ok |-> FALSE, val |-> FALSE, err |-> e, log |-> log]

RECURSIVE evaluate_ast_with_context(_, _)
RECURSIVE eval_node_to_value_with_context(_, _)
RECURSIVE AndLoop(_, _, _, _)
RECURSIVE OrLoop(_, _, _, _)
RECURSIVE EvalNodes(_, _, _, _, _)
RECURSIVE EvalEntries(_, _, _, _, _)

\* an And that evaluates every child before deciding
RECURSIVE AndLoop_Eager(_, _, _, _)
AndLoop_Eager(nodes, i, ctx, log) ==
    LET Both(r, rest) ==
            IF ~r.ok THEN R_Err(r.err, rest.log)
            ELSE IF ~rest.ok THEN rest
            ELSE R_Ok(r.val /\ rest.val, rest.log)
        Step(r) == Both(r, AndLoop_Eager(nodes, i + 1, ctx, log \o r.log))
    IN  IF i > Len(nodes) THEN R_Ok(TRUE, log)
        ELSE Step(evaluate_ast_with_context(nodes[i], ctx))

\* the for loop of the And arm (lib.rs 442-449)
AndLoop(nodes, i, ctx, log) ==
    LET Step(r) ==
            IF ~r.ok THEN R_Err(r.err, log \o r.log)
            ELSE IF ~r.val THEN R_Ok(FALSE, log \o r.log)
            ELSE AndLoop(nodes, i + 1, ctx, log \o r.log)
    IN  IF i > Len(nodes) THEN R_Ok(TRUE, log)
        ELSE Step(evaluate_ast_with_context(nodes[i], ctx))

\* the for loop of the Or arm (lib.rs 450-457)
OrLoop(nodes, i, ctx, log) ==
    LET Step(r) ==
            IF ~r.ok THEN R_Err(r.err, log \o r.log)
            ELSE IF r.val THEN R_Ok(TRUE, log \o r.log)
            ELSE OrLoop(nodes, i + 1, ctx, log \o r.log)
    IN  IF i > Len(nodes) THEN R_Ok(FALSE, log)
        ELSE Step(evaluate_ast_with_context(nodes[i], ctx))

\* iter().map(eval).collect::<Result<Vec<_>, _>>(): stops at the first Err
EvalNodes(nodes, i, ctx, acc, log) ==
    LET Step(r) ==
            IF ~r.ok THEN R_Err(r.err, log \o r.log)
            ELSE EvalNodes(nodes, i + 1, ctx, Append(acc, r.val), log \o r.log)
    IN  IF i > Len(nodes) THEN R_Ok(acc, log)
        ELSE Step(eval_node_to_value_with_context(nodes[i], ctx))

\* the for loop of the MapLiteral arm (lib.rs 516-523)
EvalEntries(entries, i, ctx, map, log) ==
    LET Step(r) ==
            IF ~r.ok THEN R_Err(r.err, log \o r.log)
            ELSE EvalEntries(entries, i + 1, ctx,
                             [key \in (DOMAIN map) \cup {entries[i].key} |->
                                 IF key = entries[i].key THEN r.val ELSE map[key]],
                             log \o r.log)
    IN  IF i > Len(entries) THEN R_Ok(map, log)
        ELSE Step(eval_node_to_value_with_context(entries[i].value, ctx))

\* evaluate_comparison_with_context (lib.rs 476-485)
evaluate_comparison_with_context(left, op, right, ctx) ==
    LET Both(left_val, right_val) ==
            IF ~right_val.ok THEN R_Err(right_val.err, left_val.log \o right_val.log)
            ELSE R_Ok(compare_new_values(left_val.val, right_val.val, op),
                      left_val.log \o right_val.log \o <<A_Comparison(left, op, right)>>)
        Left(left_val) ==
            IF ~left_val.ok THEN R_Err(left_val.err, left_val.log)
            ELSE Both(left_val, eval_node_to_value_with_context(right, ctx))
    IN  Left(eval_node_to_value_with_context(left, ctx))

\* evaluate_ast_with_context (lib.rs 439-474)
evaluate_ast_with_context(ast, ctx) ==
    LET AsBool(value) ==
            IF ~value.ok THEN R_Err(value.err, value.log)
            ELSE IF value.val.t = "Bool" THEN R_Ok(value.val.b, value.log)
            ELSE R_Err(Error("TypeMismatch", "boolean expression context"), value.log)
    IN  CASE ast.k = "Bool" -> R_Ok(ast.bv, <<>>)
          [] ast.k = "And" -> AndLoop(ast.nodes, 1, ctx, <<>>)
          [] ast.k = "Or" -> OrLoop(ast.nodes, 1, ctx, <<>>)
          [] ast.k = "Comparison" ->
                evaluate_comparison_with_context(ast.left, ast.op, ast.right, ctx)
          [] OTHER -> AsBool(eval_node_to_value_with_context(ast, ctx))

\* eval_node_to_value_with_context (lib.rs 487-556)
eval_node_to_value_with_context(node, ctx) ==
    LET Variable(value) ==
            IF value.some THEN R_Ok(value.val, <<>>) ELSE R_Ok(StringV(node.name), <<>>)
        Resolved(r) == R_Ok(IF r.some THEN r.val ELSE Null, <<>>)
        List(values) == IF ~values.ok THEN values ELSE R_Ok(ListV(values.val), values.log)
        Map(map) == IF ~map.ok THEN map ELSE R_Ok(MapV(map.val), map.log)
        Called(r, log) == IF r.ok THEN R_Ok(r.val, log) ELSE R_Err(r.err, log)
        Call(arg_values) ==
            IF ~arg_values.ok THEN arg_values
            ELSE IF ctx.builtins.some
                 THEN Called(BuiltinsRegistry_call(
                                 ctx.builtins.val,
                                 IF node.namespace.some THEN node.namespace.val ELSE S_core,
                                 node.fname, arg_values.val),
                             arg_values.log)
            ELSE R_Err(Error("InvalidOperation",
                             "Function calls not supported without built-ins registry"),
                       arg_values.log)
        FromBool(bool_result) ==
            IF ~bool_result.ok THEN bool_result
            ELSE R_Ok(BoolV(bool_result.val), bool_result.log)
    IN  CASE node.k = "Bool" -> R_Ok(BoolV(node.bv), <<>>)
          [] node.k = "String" -> R_Ok(StringV(node.sv), <<>>)
          [] node.k = "Number" -> R_Ok(NumberV(2 * node.u), <<>>)
          [] node.k = "Float" -> R_Ok(NumberV(node.fh), <<>>)
          [] node.k = "Identifier" -> Variable(get_variable(ctx, node.name))
          [] node.k = "Attribute" ->
                Resolved(resolve_attr(ctx.resolver, node.object, node.field))
          [] node.k = "ListLiteral" -> List(EvalNodes(node.elements, 1, ctx, <<>>, <<>>))
          [] node.k = "MapLiteral" -> Map(EvalEntries(node.entries, 1, ctx, <<>>, <<>>))
          [] node.k = "FunctionCall" -> Call(EvalNodes(node.args, 1, ctx, <<>>, <<>>))
          [] node.k \in {"Comparison", "And", "Or"} ->
                FromBool(evaluate_ast_with_context(node, ctx))

(***************************************************************************)
(* Trace capture (trace.rs).                                               *)
(***************************************************************************)
\* Vec<String>::sort of the elements of a set
RECURSIVE SortStrings(_)
SortStrings(S) ==
    IF S = {} THEN <<>>
    ELSE LET m == CHOOSE x \in S : \A y \in S \ {x} : StrLess(x, y)
         IN  <<m>> \o SortStrings(S \ {m})

\* EvalTrace::new (trace.rs 45-51)
EvalTrace_new == [result |-> FALSE, atoms |-> <<>>, facts_used_set |-> {}]

\* EvalTrace::add_atom (trace.rs 54-61)
add_atom(trace, atom) ==
    [trace EXCEPT
        !.facts_used_set = IF HasChar(atom.left, ".") THEN @ \cup {atom.left} ELSE @,
        !.atoms = Append(@, atom)]

\* EvalTrace::set_result (trace.rs 64-66)
set_result(trace, result) == [trace EXCEPT !.result = result]

\* EvalTrace::facts_used (trace.rs 69-73)
facts_used(trace) == SortStrings(trace.facts_used_set)

\* node_to_string (trace.rs 167-188)
node_to_string(node) ==
    CASE node.k = "Bool" -> IF node.bv THEN S_true ELSE S_false
      [] node.k = "String" -> S_quote \o node.sv \o S_quote
      [] node.k = "Number" -> UIntToString(node.u)
      [] node.k = "Float" -> FloatToString(node.fh, FALSE)
      [] node.k = "Identifier" -> node.name
      [] node.k = "Attribute" -> node.object \o S_dot \o node.field
      [] node.k = "ListLiteral" -> <<"[", ".", ".", ".", "]">>
      [] node.k = "MapLiteral" -> <<"{", ".", ".", ".", "}">>
      [] node.k = "FunctionCall" ->
            IF node.namespace.some
            THEN node.namespace.val \o S_dot \o node.fname \o <<"(", ".", ".", ".", ")">>
            ELSE node.fname \o <<"(", ".", ".", ".", ")">>
      [] OTHER -> <<"?">>

\* value_to_string (trace.rs 191-209)
RECURSIVE value_to_string(_)
value_to_string(value) ==
    CASE value.t = "Null" -> S_null
      [] value.t = "Bool" -> IF value.b THEN S_true ELSE S_false
      [] value.t = "String" -> value.s
      [] value.t = "Number" -> FloatToString(value.h, value.nan)
      [] value.t = "List" ->
            <<"[">> \o Join([i \in 1..Len(value.items) |-> value_to_string(value.items[i])],
                            <<",", " ">>) \o <<"]">>
      [] value.t = "Map" ->
            LET keys == SortStrings(DOMAIN value.m) IN
            <<"{">> \o Join([i \in 1..Len(keys) |->
                               keys[i] \o <<":", " ">> \o value_to_string(value.m[keys[i]])],
                            <<",", " ">>) \o <<"}">>

\* AtomTrace (trace.rs 10-28); node is the Comparison the atom was recorded
\* for, kept beside the recorded fields to state what the atoms cover
AtomTrace(left, op, right, left_val, right_val, result) ==
    [left |-> node_to_string(left), op |-> op, right |-> node_to_string(right),
     resolved_left_value |-> Some(value_to_string(left_val)),
     resolved_right_value |-> Some(value_to_string(right_val)),
     atom_result |-> result,
     node |-> A_Comparison(left, op, right)]

T_Ok(v, log, trace) == [ok |-> TRUE, val |-> v, err |-> NoError, log |-> log, trace |-> trace]
T_Err(e, log, trace) == [ok |-> FALSE, val |-> FALSE, err |-> e, log |-> log, trace |-> trace]

\* evaluate_comparison_with_trace (trace.rs 137-164)
evaluate_comparison_with_trace(left, op, right, ctx, trace) ==
    LET Record(left_val, right_val, result) ==
            T_Ok(result,
                 left_val.log \o right_val.log \o <<A_Comparison(left, op, right)>>,
                 add_atom(trace, AtomTrace(left, op, right, left_val.val, right_val.val,
                                           result)))
        Both(left_val, right_val) ==
            IF ~right_val.ok THEN T_Err(right_val.err, left_val.log \o right_val.log, trace)
            ELSE Record(left_val, right_val,
                        compare_new_values(left_val.val, right_val.val, op))
        Left(left_val) ==
            IF ~left_val.ok THEN T_Err(left_val.err, left_val.log, trace)
            ELSE Both(left_val, eval_node_to_value_with_context(right, ctx))
    IN  Left(eval_node_to_value_with_context(left, ctx))

RECURSIVE evaluate_ast_with_trace(_, _, _)
RECURSIVE TraceAndLoop(_, _, _, _, _)
RECURSIVE TraceOrLoop(_, _, _, _, _)

\* the for loop of the And arm (trace.rs 113-120)
TraceAndLoop(nodes, i, ctx, log, trace) ==
    LET Step(r) ==
            IF ~r.ok THEN T_Err(r.err, log \o r.log, r.trace)
            ELSE IF ~r.val THEN T_Ok(FALSE, log \o r.log, r.trace)
            ELSE TraceAndLoop(nodes, i + 1, ctx, log \o r.log, r.trace)
    IN  IF i > Len(nodes) THEN T_Ok(TRUE, log, trace)
        ELSE Step(evaluate_ast_with_trace(nodes[i], ctx, trace))

\* the for loop of the Or arm (trace.rs 121-128)
TraceOrLoop(nodes, i, ctx, log, trace) ==
    LET Step(r) ==
            IF ~r.ok THEN T_Err(r.err, log \o r.log, r.trace)
            ELSE IF r.val THEN T_Ok(TRUE, log \o r.log, r.trace)
            ELSE TraceOrLoop(nodes, i + 1, ctx, log \o r.log, r.trace)
    IN  IF i > Len(nodes) THEN T_Ok(FALSE, log, trace)
        ELSE Step(evaluate_ast_with_trace(nodes[i], ctx, trace))

\* evaluate_ast_with_trace (trace.rs 106-134)
evaluate_ast_with_trace(ast, ctx, trace) ==
    CASE ast.k = "Bool" -> T_Ok(ast.bv, <<>>, trace)
      [] ast.k = "And" -> TraceAndLoop(ast.nodes, 1, ctx, <<>>, trace)
      [] ast.k = "Or" -> TraceOrLoop(ast.nodes, 1, ctx, <<>>, trace)
      [] ast.k = "Comparison" ->
            evaluate_comparison_with_trace(ast.left, ast.op, ast.right, ctx, trace)
      [] OTHER -> T_Ok(FALSE, <<>>, trace)

(***************************************************************************)
(* The entry points.  An outcome is Ok, Err or Panic.                      *)
(***************************************************************************)
Outcome(api, tag, val, err, log) ==
    [api |-> api, tag |-> tag, val |-> val, err |-> err, log |-> log]
NoOutcome == Outcome("none", "none", FALSE, NoError, <<>>)

FromResult(api, r) ==
    IF r.ok THEN Outcome(api, "Ok", r.val, NoError, r.log)
    ELSE Outcome(api, "Err", FALSE, r.err, r.log)

\* evaluate_with_resolver (lib.rs 420-427)
evaluate_with_resolver(condition, resolver) ==
    LET Run(ast) ==
            IF ast.panic THEN Outcome("evaluate_with_resolver", "Panic", FALSE, NoError, <<>>)
            ELSE FromResult("evaluate_with_resolver",
                            evaluate_ast_with_context(ast.node, EvalContext_new(resolver)))
    IN  Run(parse_rule(condition))

\* evaluate_with_context (lib.rs 429-437)
evaluate_with_context(condition, resolver, builtins) ==
    LET Run(ast) ==
            IF ast.panic THEN Outcome("evaluate_with_context", "Panic", FALSE, NoError, <<>>)
            ELSE FromResult("evaluate_with_context",
                            evaluate_ast_with_context(
                                ast.node, EvalContext_with_builtins(resolver, builtins)))
    IN  Run(parse_rule(condition))

\* evaluate (lib.rs 751-755)
evaluate(expr, context) ==
    LET Done(r) ==
            IF r.ok THEN Outcome("evaluate", "Ok", r.val, NoError, r.log)
            ELSE Outcome("evaluate", "Err", FALSE, HelError_from(r.err), r.log)
        Run(ast) ==
            IF ast.tag = "Err" THEN Outcome("evaluate", "Err", FALSE, ast.err, <<>>)
            ELSE IF ast.tag = "Panic" THEN Outcome("evaluate", "Panic", FALSE, NoError, <<>>)
            ELSE Done(evaluate_ast_with_context(ast.node, EvalContext_new(context)))
    IN  Run(parse_expression(expr))

TraceOutcome(tag, trace, err, log) ==
    [tag |-> tag, trace |-> trace, err |-> err, log |-> log]
NoTraceOutcome == TraceOutcome("none", EvalTrace_new, NoError, <<>>)

\* evaluate_with_trace (trace.rs 86-103)
evaluate_with_trace(condition, resolver, builtins) ==
    LET ctx == IF builtins.some
               THEN EvalContext_with_builtins(resolver, builtins.val)
               ELSE EvalContext_new(resolver)
        Done(r) ==
            IF ~r.ok THEN TraceOutcome("Err", EvalTrace_new, r.err, r.log)
            ELSE TraceOutcome("Ok", set_result(r.trace, r.val), NoError, r.log)
        Run(ast) ==
            IF ast.panic THEN TraceOutcome("Panic", EvalTrace_new, NoError, <<>>)
            ELSE Done(evaluate_ast_with_trace(ast.node, ctx, EvalTrace_new))
    IN  Run(parse_rule(condition))

(***************************************************************************)
(* Script support (lib.rs 763-906).  A script is a sequence of lines, a    *)
(* trimmed line the sequence of its tokens; the text of a line is its      *)
(* tokens joined by single spaces.                                         *)
(***************************************************************************)
\* line.is_empty()
IsEmptyLine(line) == Len(line) = 0

\* line.starts_with('#')
IsCommentLine(line) == Len(line) > 0 /\ line[1].s[1] = "#"

\* line.starts_with("let "): the word let, a space, and more text
StartsWithLet(line) == Len(line) >= 2 /\ line[1] = T_let

\* str::contains('=') on the text of a token sequence
ContainsEq(toks) == \E k \in 1..Len(toks) : HasChar(toks[k].s, "=")

\* rest.find('='), rest[..eq_pos].trim() and rest[eq_pos + 1..].trim()
\* (lib.rs 807-809): the name is the text before the first '=', the
\* expression the text after it, which may begin inside a token
SplitAtEq(rest) ==
    LET k == CHOOSE k \in 1..Len(rest) :
                 HasChar(rest[k].s, "=") /\ \A j \in 1..(k - 1) : ~HasChar(rest[j].s, "=")
        p == CHOOSE p \in 1..Len(rest[k].s) :
                 rest[k].s[p] = "=" /\ \A q \in 1..(p - 1) : rest[k].s[q] # "="
        Piece(chars) == IF chars = <<>> THEN <<>> ELSE <<TSym(chars)>>
        Text(toks) == TextOf(toks, 1, Len(toks) + 1)
    IN  [name |-> Text(SubSeq(rest, 1, k - 1) \o Piece(SubSeq(rest[k].s, 1, p - 1))),
         expr |-> Piece(SubSeq(rest[k].s, p + 1, Len(rest[k].s)))
                  \o SubSeq(rest, k + 1, Len(rest))]

\* the multi-line loop of a let binding (lib.rs 812-824): the expression
\* collected and the index of the line the loop stopped at
RECURSIVE LetLines(_, _, _)
LetLines(lines, i, expr_str) ==
    IF i > Len(lines) THEN [expr |-> expr_str, next |-> i]
    ELSE IF IsEmptyLine(lines[i]) \/ IsCommentLine(lines[i])
         THEN LetLines(lines, i + 1, expr_str)
    ELSE IF StartsWithLet(lines[i]) \/ (~ContainsEq(lines[i]) /\ expr_str # <<>>)
         THEN [expr |-> expr_str, next |-> i]
    ELSE LetLines(lines, i + 1, expr_str \o lines[i])

\* a final expression that keeps its first line only
FinalLines_FirstOnly(lines, i, expr_str) == expr_str

\* the loop collecting the final expression (lib.rs 835-843)
RECURSIVE FinalLines(_, _, _)
FinalLines(lines, i, expr_str) ==
    IF i > Len(lines) THEN expr_str
    ELSE IF ~IsEmptyLine(lines[i]) /\ ~IsCommentLine(lines[i])
         THEN FinalLines(lines, i + 1, expr_str \o lines[i])
    ELSE FinalLines(lines, i + 1, expr_str)

ScriptOk(bindings, final_expr) ==
    [tag |-> "Ok", err |-> NoError, bindings |-> bindings, final_expr |-> final_expr]
ScriptErr(e) ==
    [tag |-> "Err", err |-> e, bindings |-> <<>>, final_expr |-> A_Bool(FALSE)]
ScriptPanic ==
    [tag |-> "Panic", err |-> NoError, bindings |-> <<>>, final_expr |-> A_Bool(FALSE)]

\* the while loop of parse_script (lib.rs 791-851) from line i on
RECURSIVE ParseLines(_, _, _)
ParseLines(lines, i, bindings) ==
    LET Bound(name, next, expr) ==
            IF expr.tag = "Err" THEN ScriptErr(expr.err)
            ELSE IF expr.tag = "Panic" THEN ScriptPanic
            ELSE ParseLines(lines, next,
                            Append(bindings, [name |-> name, expr |-> expr.node]))
        Collected(name, c) == Bound(name, c.next, parse_expression(c.expr))
        Binding(split) == Collected(split.name, LetLines(lines, i + 1, split.expr))
        Final(expr) ==
            IF expr.tag = "Err" THEN ScriptErr(expr.err)
            ELSE IF expr.tag = "Panic" THEN ScriptPanic
            ELSE ScriptOk(bindings, expr.node)
    IN  IF i > Len(lines)
        THEN ScriptErr(Error("ParseError", "Script must have a final boolean expression"))
        ELSE IF IsEmptyLine(lines[i]) \/ IsCommentLine(lines[i])
             THEN ParseLines(lines, i + 1, bindings)
        ELSE IF StartsWithLet(lines[i]) /\ ContainsEq(Tail(lines[i]))
             THEN Binding(SplitAtEq(Tail(lines[i])))
        ELSE Final(parse_expression(FinalLines(lines, i + 1, lines[i])))

\* parse_script (lib.rs 786-862)
parse_script(script) == ParseLines(script, 1, <<>>)

\* the outcome of evaluate_script; stored lists, in the order of the calls,
\* the name and value of every with_variable call of the run
ScriptOutcome(tag, val, err, log, stored) ==
    [api |-> "evaluate_script", tag |-> tag, val |-> val, err |-> err, log |-> log,
     stored |-> stored]

\* the for loop over the bindings (lib.rs 895-901), then the final
\* expression (lib.rs 904-905)
RECURSIVE EvalBindings(_, _, _, _, _)
EvalBindings(parsed, i, eval_ctx, log, stored) ==
    LET Final(r) ==
            IF r.ok THEN ScriptOutcome("Ok", r.val, NoError, log \o r.log, stored)
            ELSE ScriptOutcome("Err", FALSE, HelError_from(r.err), log \o r.log, stored)
        Step(value) ==
            IF ~value.ok
            THEN ScriptOutcome("Err", FALSE, HelError_from(value.err),
                               log \o value.log, stored)
            ELSE EvalBindings(parsed, i + 1,
                              with_variable(eval_ctx, parsed.bindings[i].name, value.val),
                              log \o value.log,
                              Append(stored, [name |-> parsed.bindings[i].name,
                                              value |-> value.val]))
    IN  IF i > Len(parsed.bindings)
        THEN Final(evaluate_ast_with_context(parsed.final_expr, eval_ctx))
        ELSE Step(eval_node_to_value_with_context(parsed.bindings[i].expr, eval_ctx))

\* evaluate_script (lib.rs 888-906)
evaluate_script(script, context) ==
    LET Run(parsed) ==
            IF parsed.tag = "Err" THEN ScriptOutcome("Err", FALSE, parsed.err, <<>>, <<>>)
            ELSE IF parsed.tag = "Panic"
                 THEN ScriptOutcome("Panic", FALSE, NoError, <<>>, <<>>)
            ELSE EvalBindings(parsed, 1, EvalContext_new(context), <<>>, <<>>)
    IN  Run(parse_script(script))

(***************************************************************************)
(* Schemas (schema/mod.rs).  A schema file is its sequence of non-blank,   *)
(* non-comment lines: the start of a type block, the end of a block, or a  *)
(* field.  Schema.types maps a type name to its TypeDef.                   *)
(***************************************************************************)
TypeLine(name) == [kind |-> "type", name |-> name, brace |-> TRUE]
BadTypeLine(name) == [kind |-> "type", name |-> name, brace |-> FALSE]
EndLine == [kind |-> "end"]
FieldLine(name, field_type) == [kind |-> "field", name |-> name, field_type |-> field_type]

FT_String == [t |-> "String"]
FT_TypeRef(name) == [t |-> "TypeRef", name |-> name]
FT_List(inner) == [t |-> "List", inner |-> inner]

\* validate_field_type (schema/mod.rs 74-85, package.rs 320-335): the name
\* the field type refers to, looked for through List<..>, if there is one
RECURSIVE TypeRefOf(_)
TypeRefOf(field_type) ==
    IF field_type.t = "TypeRef" THEN Some(field_type.name)
    ELSE IF field_type.t = "List" THEN TypeRefOf(field_type.inner)
    ELSE None

TypeDef(name, fields) == [name |-> name, fields |-> fields]

\* Schema::new (schema/mod.rs 50-52)
Schema_new == <<>>

\* Schema::add_type (schema/mod.rs 55-57): BTreeMap::insert, a definition
\* under a name already present replaces the earlier one
add_type(types, type_def) ==
    [n \in (DOMAIN types) \cup {type_def.name} |->
        IF n = type_def.name THEN type_def ELSE types[n]]

\* Schema::validate (schema/mod.rs 65-86)
Schema_validate(types) ==
    \A n \in DOMAIN types :
        \A i \in 1..Len(types[n].fields) :
            TypeRefOf(types[n].fields[i].field_type).some
                => TypeRefOf(types[n].fields[i].field_type).val \in DOMAIN types

\* the types with the type block in progress saved, if there is one
SaveCurrent(types, current_type) ==
    IF current_type.some THEN add_type(types, current_type.val) ELSE types

\* the loop of parse_schema (schema/mod.rs 121-189)
RECURSIVE SchemaLines(_, _, _, _, _)
SchemaLines(lines, i, types, current_type, in_type_block) ==
    IF i > Len(lines)
    THEN [ok |-> TRUE, types |-> SaveCurrent(types, current_type)]
    ELSE IF lines[i].kind = "type"
         THEN IF ~lines[i].brace
              THEN [ok |-> FALSE, types |-> <<>>]
              ELSE SchemaLines(lines, i + 1, SaveCurrent(types, current_type),
                               Some(TypeDef(lines[i].name, <<>>)), TRUE)
    ELSE IF lines[i].kind = "end"
         THEN SchemaLines(lines, i + 1, SaveCurrent(types, current_type), None, FALSE)
    ELSE IF in_type_block /\ current_type.some
         THEN SchemaLines(lines, i + 1, types,
                          Some(TypeDef(current_type.val.name,
                                       Append(current_type.val.fields,
                                              [name |-> lines[i].name,
                                               field_type |-> lines[i].field_type]))),
                          in_type_block)
    ELSE SchemaLines(lines, i + 1, types, current_type, in_type_block)

\* parse_schema (schema/mod.rs 116-193)
parse_schema(input) ==
    LET Validated(r) ==
            IF r.ok /\ ~Schema_validate(r.types) THEN [ok |-> FALSE, types |-> <<>>] ELSE r
    IN  Validated(SchemaLines(input, 1, Schema_new, None, FALSE))

(***************************************************************************)
(* Packages (schema/package.rs).  A search path maps the names of its      *)
(* directories to the directory: its manifest, if it has a                 *)
(* hel-package.toml, and the contents of its files.  A directory is        *)
(* addressed by the index of its search path and its name.                 *)
(***************************************************************************)
PackageManifest(name, schemas, dependencies) ==
    [name |-> name, schemas |-> schemas, dependencies |-> dependencies]

Directory(manifest, files) == [manifest |-> manifest, files |-> files]

PackageError(kind, detail) == [kind |-> kind, detail |-> detail]
NoPackageError == PackageError("none", <<>>)

P_Ok(package) == [ok |-> TRUE, package |-> package, err |-> NoPackageError]
P_Err(err) == [ok |-> FALSE, package |-> <<>>, err |-> err]

\* the merge of the types of one parsed file into the combined schema
\* (package.rs 103-112), in the order of the BTreeMap of the parsed schema
RECURSIVE MergeTypes(_, _, _, _)
MergeTypes(combined, parsed, names, k) ==
    IF k > Len(names) THEN [ok |-> TRUE, types |-> combined, dup |-> <<>>]
    ELSE IF names[k] \in DOMAIN combined
         THEN [ok |-> FALSE, types |-> combined, dup |-> names[k]]
    ELSE MergeTypes(combined @@ (names[k] :> parsed[names[k]]), parsed, names, k + 1)

\* the loop over the schema files of the manifest (package.rs 82-113)
RECURSIVE LoadSchemas(_, _, _, _, _)
LoadSchemas(fs, dir, manifest, k, combined) ==
    LET files == fs[dir[1]][dir[2]].files
        Merged(m) ==
            IF ~m.ok THEN P_Err(PackageError("DuplicateType", m.dup))
            ELSE LoadSchemas(fs, dir, manifest, k + 1, m.types)
        Parsed(parsed) ==
            IF ~parsed.ok THEN P_Err(PackageError("SchemaParse", manifest.schemas[k]))
            ELSE Merged(MergeTypes(combined, parsed.types,
                                   SortStrings(DOMAIN parsed.types), 1))
    IN  IF k > Len(manifest.schemas)
        THEN P_Ok([manifest |-> manifest, schema |-> combined, imports |-> <<>>,
                   root_path |-> dir])
        ELSE IF manifest.schemas[k] \notin DOMAIN files
             THEN P_Err(PackageError("Io", manifest.schemas[k]))
        ELSE Parsed(parse_schema(files[manifest.schemas[k]]))

\* SchemaPackage::from_directory (package.rs 74-121)
from_directory(fs, dir) ==
    IF ~fs[dir[1]][dir[2]].manifest.some
    THEN P_Err(PackageError("Io", "hel-package.toml"))
    ELSE LoadSchemas(fs, dir, fs[dir[1]][dir[2]].manifest.val, 1, Schema_new)

\* the search of load_package (package.rs 176-184): the first search path
\* with a directory of that name that has a hel-package.toml
RECURSIVE FindPackageDir(_, _, _)
FindPackageDir(fs, name, p) ==
    IF p > Len(fs) THEN None
    ELSE IF name \in DOMAIN fs[p] /\ fs[p][name].manifest.some THEN Some(<<p, name>>)
    ELSE FindPackageDir(fs, name, p + 1)

\* PackageRegistry::load_package (package.rs 169-203): the result and the
\* packages of the registry after the call
load_package(fs, packages, name) ==
    LET Loaded(r) ==
            IF ~r.ok THEN [ok |-> FALSE, err |-> r.err, packages |-> packages]
            ELSE IF r.package.manifest.name # name
                 THEN [ok |-> FALSE, err |-> PackageError("NameMismatch", name),
                       packages |-> packages]
            ELSE [ok |-> TRUE, err |-> NoPackageError,
                  packages |-> (name :> r.package) @@ packages]
        Found(package_dir) ==
            IF ~package_dir.some
            THEN [ok |-> FALSE, err |-> PackageError("PackageNotFound", name),
                  packages |-> packages]
            ELSE Loaded(from_directory(fs, package_dir.val))
    IN  IF name \in DOMAIN packages
        THEN [ok |-> TRUE, err |-> NoPackageError, packages |-> packages]
        ELSE Found(FindPackageDir(fs, name, 1))

\* the state of a resolve_all call: the registry's packages, the names
\* resolved so far, the names being visited, and the error, if any
ResolveState(packages, resolved, visiting, ok, err) ==
    [packages |-> packages, resolved |-> resolved, visiting |-> visiting,
     ok |-> ok, err |-> err]

\* a cycle that is taken for a package resolved already
CycleDetected_Ignored(st, package_name) == st

\* the cycle detection of resolve_recursive (package.rs 223-228)
CycleDetected(st, package_name) ==
    [st EXCEPT !.ok = FALSE, !.err = PackageError("CircularDependency", package_name)]

\* a push that puts the package before its dependencies
PushResolved_Front(st, package_name) ==
    [st EXCEPT !.visiting = @ \ {package_name}, !.resolved = <<package_name>> \o @]

\* the end of resolve_recursive (package.rs 244-245)
PushResolved(st, package_name) ==
    [st EXCEPT !.visiting = @ \ {package_name}, !.resolved = Append(@, package_name)]

\* PackageRegistry::resolve_recursive (package.rs 217-248), with the loop
\* over the dependencies in the order of their BTreeMap
RECURSIVE resolve_recursive(_, _, _)
RECURSIVE ResolveDeps(_, _, _, _)
ResolveDeps(fs, st, deps, k) ==
    LET Next(r) == IF ~r.ok THEN r ELSE ResolveDeps(fs, r, deps, k + 1)
    IN  IF k > Len(deps) THEN st ELSE Next(resolve_recursive(fs, st, deps[k]))

resolve_recursive(fs, st, package_name) ==
    LET Finish(r) == IF ~r.ok THEN r ELSE PushResolved(r, package_name)
        Loaded(l) ==
            IF ~l.ok
            THEN [st EXCEPT !.visiting = @ \cup {package_name}, !.ok = FALSE, !.err = l.err]
            ELSE Finish(ResolveDeps(
                            fs,
                            [st EXCEPT !.visiting = @ \cup {package_name},
                                       !.packages = l.packages],
                            SortStrings(l.packages[package_name].manifest.dependencies), 1))
    IN  IF package_name \in st.visiting THEN CycleDetected(st, package_name)
        ELSE IF \E i \in 1..Len(st.resolved) : st.resolved[i] = package_name THEN st
        ELSE Loaded(load_package(fs, st.packages, package_name))

\* PackageRegistry::resolve_all (package.rs 208-215)
resolve_all(fs, packages, root_package) ==
    resolve_recursive(fs, ResolveState(packages, <<>>, {}, TRUE, NoPackageError),
                      root_package)

\* a build that lets a later type take the place of an earlier one of the
\* same qualified name
TypeCollision_Overwrite(types, qualified_name) == FALSE

\* the collision test of build_type_environment (package.rs 273-277)
TypeCollision(types, qualified_name) == qualified_name \in DOMAIN types

\* the types of one package entered under their qualified names
\* (package.rs 269-280), in the order of the BTreeMap of the schema
RECURSIVE QualifyTypes(_, _, _, _)
QualifyTypes(types, package, names, k) ==
    LET Insert(qualified_name) ==
            IF TypeCollision(types, qualified_name)
            THEN [ok |-> FALSE, types |-> <<>>,
                  err |-> PackageError("TypeCollision", qualified_name)]
            ELSE QualifyTypes((qualified_name :> package.schema[names[k]]) @@ types,
                              package, names, k + 1)
    IN  IF k > Len(names) THEN [ok |-> TRUE, types |-> types, err |-> NoPackageError]
        ELSE Insert(package.manifest.name \o S_dot \o names[k])

\* the loop over the package names of build_type_environment
\* (package.rs 263-281)
RECURSIVE BuildTypes(_, _, _, _)
BuildTypes(packages, package_names, i, types) ==
    LET Next(r) == IF ~r.ok THEN r ELSE BuildTypes(packages, package_names, i + 1, r.types)
    IN  IF i > Len(package_names)
        THEN [ok |-> TRUE, types |-> types, err |-> NoPackageError]
        ELSE IF package_names[i] \notin DOMAIN packages
             THEN [ok |-> FALSE, types |-> <<>>,
                   err |-> PackageError("PackageNotFound", package_names[i])]
        ELSE Next(QualifyTypes(types, packages[package_names[i]],
                               SortStrings(DOMAIN packages[package_names[i]].schema), 1))

\* PackageRegistry::build_type_environment (package.rs 260-284)
build_type_environment(packages, package_names) ==
    BuildTypes(packages, package_names, 1, <<>>)

\* TypeEnvironment::validate (package.rs 311-318): TRUE for Ok(()), FALSE
\* for the error UndefinedTypeReference
TypeEnvironment_validate(types) ==
    \A n \in DOMAIN types :
        \A i \in 1..Len(types[n].fields) :
            TypeRefOf(types[n].fields[i].field_type).some
                => TypeRefOf(types[n].fields[i].field_type).val \in DOMAIN types

NoRegister == [tag |-> "none"]
NoQuery == [api |-> "none"]

IdleReg ==
    /\ regProviders = <<>>
    /\ regHistory = <<>>
    /\ regLast = NoRegister
    /\ regQuery = NoQuery

NoRequest == [api |-> "none"]

IdlePkg ==
    /\ pkgFs = <<>>
    /\ pkgPackages = <<>>
    /\ pkgResult = NoRequest

(***************************************************************************)
(* Specification of the comparison kernel: two values are drawn, then the  *)
(* kernel is called with each comparator.                                  *)
(***************************************************************************)
IdleCmp ==
    /\ cmpLeft = Null
    /\ cmpRight = Null
    /\ cmpOp = "none"
    /\ cmpResult = FALSE

IdleEval ==
    /\ evText = <<>>
    /\ evFacts = <<>>
    /\ evRegistry = None
    /\ evPlain = NoOutcome
    /\ evTraced = NoTraceOutcome

NoResult == [done |-> FALSE]
Done(r) == [done |-> TRUE, r |-> r]

IdleAst ==
    /\ astNode = A_Bool(FALSE)
    /\ astFacts = <<>>
    /\ astPlain = NoResult
    /\ astTraced = NoResult

NotParsed == [tag |-> "none"]

IdleScript ==
    /\ scLines = <<>>
    /\ scFacts = <<>>
    /\ scOut = NoOutcome
    /\ scBase = NoOutcome
    /\ scEval = NoOutcome
    /\ scParsed = NotParsed

InitCmp ==
    /\ cmpLeft \in CmpValues
    /\ cmpRight \in CmpValues
    /\ cmpOp = "none"
    /\ cmpResult = FALSE
    /\ IdleEval /\ IdleAst /\ IdleScript /\ IdleReg /\ IdlePkg

Compare(op) ==
    /\ cmpOp' = op
    /\ cmpResult' = compare_new_values(cmpLeft, cmpRight, op)
    /\ UNCHANGED <<cmpLeft, cmpRight>>
    /\ UNCHANGED <<evVars, astVars, scVars, regVars, pkgVars>>

NextCmp == \E op \in Comparator : Compare(op)

SpecCmp == InitCmp /\ [][NextCmp]_vars

(***************************************************************************)
(* Specification of the evaluators: the host holds a rule text, its facts  *)
(* and possibly a registry, and calls the entry points on them.            *)
(***************************************************************************)
X_attr == <<TId(S_a), T_dot, TId(S_b)>>
X_flag == <<TId(S_f), T_dot, TId(S_g)>>
X_one == <<TInt(<<"1">>)>>
X_attrEq1 == X_attr \o <<T_eqeq>> \o X_one
X_flagEqTrue == X_flag \o <<T_eqeq, T_true>>
X_ident == <<TId(S_x)>>
X_call == <<TId(S_core), T_dot, TId(S_contains), T_lp, T_lb, TStr(S_a), T_rb, T_comma,
            TStr(S_a), T_rp>>
X_callCmp == <<TId(S_Core), T_dot, TId(S_len), T_lp, TStr(S_ab), T_rp, T_eqeq,
               TInt(<<"2">>)>>
X_callBare == <<TId(S_len), T_lp, TStr(S_ab), T_rp, T_eqeq, TInt(<<"2">>)>>
X_callAcme == <<TId(S_acme), T_dot>> \o X_callBare
X_callNoFn == <<TId(S_core), T_dot, TId(S_x), T_lp, TStr(S_ab), T_rp, T_eqeq, TInt(<<"2">>)>>
X_nested == <<T_lp>> \o X_attrEq1 \o <<T_rp, T_eqeq, T_true>>
X_strLeft == <<TStr(<<"a", ".", "b">>), T_ne>> \o X_flag
X_floatLeft == <<TFlt(<<"1", ".", "5">>), T_gt>> \o X_attr
X_listLeft == <<T_lb, T_lp>> \o X_attrEq1 \o <<T_rp, T_comma>> \o X_one
                  \o <<T_rb, T_contains, T_true>>
X_mapLeft == <<T_lc, TStr(S_k), T_colon>> \o X_attr \o <<T_rc, T_contains, TStr(S_k)>>
X_group == <<T_lp>> \o X_flag \o <<T_or>> \o X_attrEq1 \o <<T_rp>>
X_bigInt == X_attr \o <<T_lt,
    TInt(<<"9", "9", "9", "9", "9", "9", "9", "9", "9", "9", "9", "9", "9", "9", "9",
           "9", "9", "9", "9", "9", "9">>)>>
X_badSyntax == X_attr \o <<T_eqeq>>

ChainOperands == {<<T_true>>, <<T_false>>, X_ident, X_flag, X_attrEq1, X_flagEqTrue}

RECURSIVE Interleave(_, _)
Interleave(operands, connectives) ==
    IF Len(operands) = 1 THEN operands[1]
    ELSE operands[1] \o <<connectives[1]>> \o Interleave(Tail(operands), Tail(connectives))

Chains ==
    UNION {{Interleave(os, cs) : os \in [1..n -> ChainOperands],
                                 cs \in [1..(n - 1) -> {T_and, T_or}]} : n \in 1..MaxOperands}

SingleRules ==
    {X_call, X_callCmp, X_callBare, X_callAcme, X_callNoFn, X_nested, X_strLeft, X_floatLeft, X_listLeft, X_mapLeft, X_group,
     X_bigInt, X_badSyntax, <<>>}

RuleTexts == Chains \cup SingleRules

FactSets ==
    {<<>>,
     (FactKey(S_a, S_b) :> NumberV(2)) @@ (FactKey(S_f, S_g) :> BoolV(TRUE)),
     (FactKey(S_a, S_b) :> NaN) @@ (FactKey(S_f, S_g) :> BoolV(FALSE))}

Registries ==
    {None, Some(BuiltinsRegistry_new),
     Some(BuiltinsRegistry_register(BuiltinsRegistry_new, CoreBuiltinsProvider).providers)}

InitEval ==
    /\ evText \in RuleTexts
    /\ evFacts \in FactSets
    /\ evRegistry \in Registries
    /\ evPlain = NoOutcome
    /\ evTraced = NoTraceOutcome
    /\ IdleCmp /\ IdleAst /\ IdleScript /\ IdleReg /\ IdlePkg

EvaluateWithResolver ==
    /\ evPlain.tag = "none"
    /\ ~evRegistry.some
    /\ evPlain' = evaluate_with_resolver(evText, evFacts)
    /\ UNCHANGED <<evText, evFacts, evRegistry, evTraced>>
    /\ UNCHANGED <<cmpVars, astVars, scVars, regVars, pkgVars>>

EvaluateWithContext ==
    /\ evPlain.tag = "none"
    /\ evRegistry.some
    /\ evPlain' = evaluate_with_context(evText, evFacts, evRegistry.val)
    /\ UNCHANGED <<evText, evFacts, evRegistry, evTraced>>
    /\ UNCHANGED <<cmpVars, astVars, scVars, regVars, pkgVars>>

Evaluate ==
    /\ evPlain.tag = "none"
    /\ evPlain' = evaluate(evText, evFacts)
    /\ UNCHANGED <<evText, evFacts, evRegistry, evTraced>>
    /\ UNCHANGED <<cmpVars, astVars, scVars, regVars, pkgVars>>

ParseExpression ==
    /\ evPlain.tag = "none"
    /\ LET r == parse_expression(evText) IN
       evPlain' = Outcome("parse_expression", r.tag, FALSE, r.err, <<>>)
    /\ UNCHANGED <<evText, evFacts, evRegistry, evTraced>>
    /\ UNCHANGED <<cmpVars, astVars, scVars, regVars, pkgVars>>

EvaluateWithTrace ==
    /\ evTraced.tag = "none"
    /\ evTraced' = evaluate_with_trace(evText, evFacts, evRegistry)
    /\ UNCHANGED <<evText, evFacts, evRegistry, evPlain>>
    /\ UNCHANGED <<cmpVars, astVars, scVars, regVars, pkgVars>>

NextEval ==
    \/ EvaluateWithResolver
    \/ EvaluateWithContext
    \/ Evaluate
    \/ ParseExpression
    \/ EvaluateWithTrace

SpecEval == InitEval /\ [][NextEval]_vars

(***************************************************************************)
(* Specification of the AST evaluators: an AstNode and facts are drawn,    *)
(* then evaluate_ast_with_context and evaluate_ast_with_trace are applied  *)
(* to it.                                                                  *)
(***************************************************************************)
N_attrEq1 == A_Comparison(A_Attribute(S_a, S_b), "Eq", A_Number(1))
N_callEq1 == A_Comparison(A_FunctionCall(None, S_len, <<>>), "Eq", A_Number(1))

AstLeaves ==
    {A_Bool(TRUE), A_Bool(FALSE), A_Identifier(S_x), A_Attribute(S_f, S_g),
     N_attrEq1, N_callEq1}

AstChildren == AstLeaves \cup {A_And(<<>>), A_Or(<<>>)}

AstNodes ==
    AstLeaves \cup {A_And(ns) : ns \in SeqUpTo(AstChildren, MaxOperands)}
              \cup {A_Or(ns) : ns \in SeqUpTo(AstChildren, MaxOperands)}

InitAst ==
    /\ astNode \in AstNodes
    /\ astFacts \in FactSets
    /\ astPlain = NoResult
    /\ astTraced = NoResult
    /\ IdleCmp /\ IdleEval /\ IdleScript /\ IdleReg /\ IdlePkg

EvaluateAst ==
    /\ ~astPlain.done
    /\ astPlain' = Done(evaluate_ast_with_context(astNode, EvalContext_new(astFacts)))
    /\ UNCHANGED <<astNode, astFacts, astTraced>>
    /\ UNCHANGED <<cmpVars, evVars, scVars, regVars, pkgVars>>

EvaluateAstWithTrace ==
    /\ ~astTraced.done
    /\ astTraced' = Done(evaluate_ast_with_trace(astNode, EvalContext_new(astFacts),
                                                 EvalTrace_new))
    /\ UNCHANGED <<astNode, astFacts, astPlain>>
    /\ UNCHANGED <<cmpVars, evVars, scVars, regVars, pkgVars>>

NextAst == EvaluateAst \/ EvaluateAstWithTrace

SpecAst == InitAst /\ [][NextAst]_vars

(***************************************************************************)
(* Specification of script evaluation: the host holds a script and facts,  *)
(* evaluates the script, evaluates its joined lines as one expression, and *)
(* may insert a let line before the final expression and evaluate again.   *)
(***************************************************************************)
\* most lines of an enumerated script
MaxLines == 3
MaxRegisters == 3

L_comment == <<T_hash, TId(S_x)>>
L_letX == <<T_let, TId(S_x), T_assign, T_true>>
L_x == X_ident
L_andFlag == <<T_and>> \o X_flag

L_letOnly == <<T_let, TId(S_x)>>

ScriptLines == {<<>>, L_comment, L_letX, L_letOnly, L_x, X_attrEq1, X_flag, L_andFlag}

Scripts == UNION {[1..n -> ScriptLines] : n \in 1..MaxLines}

\* the expressions of the inserted let line
InsertedExprs == {<<T_true>>, X_call}

\* the script has a let binding
HasLetBinding(lines) ==
    \E i \in 1..Len(lines) : StartsWithLet(lines[i]) /\ ContainsEq(Tail(lines[i]))

\* the non-comment, non-blank lines joined by single spaces
RECURSIVE Flatten(_)
Flatten(ls) == IF ls = <<>> THEN <<>> ELSE Head(ls) \o Flatten(Tail(ls))

JoinedLines(lines) ==
    Flatten(SelectSeq(lines, LAMBDA l : ~IsEmptyLine(l) /\ ~IsCommentLine(l)))

\* the first line of the final expression: the first line that is neither
\* blank, a comment, nor a let line; 0 if there is none
FinalAt(lines) ==
    LET F == {i \in 1..Len(lines) :
                 ~IsEmptyLine(lines[i]) /\ ~IsCommentLine(lines[i])
                 /\ ~StartsWithLet(lines[i])}
    IN  IF F = {} THEN 0 ELSE CHOOSE i \in F : \A j \in F : i <= j

\* name occurs in no line from line i on
Unreferenced(lines, i, name) ==
    \A j \in i..Len(lines) : \A k \in 1..Len(lines[j]) : lines[j][k].s # name

InsertAt(lines, i, line) == SubSeq(lines, 1, i - 1) \o <<line>> \o SubSeq(lines, i, Len(lines))

InitScript ==
    /\ scLines \in Scripts
    /\ scFacts \in FactSets
    /\ scOut = NoOutcome
    /\ scBase = NoOutcome
    /\ scEval = NoOutcome
    /\ scParsed = NotParsed
    /\ IdleCmp /\ IdleEval /\ IdleAst /\ IdleReg /\ IdlePkg

EvaluateScript ==
    /\ scOut.tag = "none"
    /\ scOut' = evaluate_script(scLines, scFacts)
    /\ UNCHANGED <<scLines, scFacts, scBase, scEval, scParsed>>
    /\ UNCHANGED <<cmpVars, evVars, astVars, regVars, pkgVars>>

EvaluateJoined ==
    /\ scEval.tag = "none"
    /\ scBase.tag = "none"
    /\ scEval' = evaluate(JoinedLines(scLines), scFacts)
    /\ UNCHANGED <<scLines, scFacts, scOut, scBase, scParsed>>
    /\ UNCHANGED <<cmpVars, evVars, astVars, regVars, pkgVars>>

\* the host inserts   let u = EXPR   before the final expression
InsertLet(expr) ==
    /\ scOut.tag # "none"
    /\ scBase.tag = "none"
    /\ FinalAt(scLines) # 0
    /\ Unreferenced(scLines, FinalAt(scLines), S_u)
    /\ scLines' = InsertAt(scLines, FinalAt(scLines), <<T_let, TId(S_u), T_assign>> \o expr)
    /\ scBase' = scOut
    /\ scOut' = NoOutcome
    /\ UNCHANGED <<scFacts, scEval, scParsed>>
    /\ UNCHANGED <<cmpVars, evVars, astVars, regVars, pkgVars>>

NextScript ==
    \/ EvaluateScript
    \/ EvaluateJoined
    \/ \E expr \in InsertedExprs : InsertLet(expr)

SpecScript == InitScript /\ [][NextScript]_vars

(***************************************************************************)
(* Specification of let bindings: a script of one-line bindings of the     *)
(* names x, X and y, each to a boolean literal, an identifier, or the      *)
(* comparison of an identifier with the string of its name, followed by a  *)
(* final expression that is an identifier or a literal, is drawn and       *)
(* evaluated.                                                              *)
(***************************************************************************)
BoundNames == {S_x, S_X, S_y}

BoundExprs ==
    {<<T_true>>, <<T_false>>}
        \cup {<<TId(n)>> : n \in BoundNames}
        \cup {<<TId(n), T_eqeq, TStr(n)>> : n \in BoundNames}

BindingLines == {<<T_let, TId(n), T_assign>> \o e : n \in BoundNames, e \in BoundExprs}

FinalExprs == {<<T_true>>} \cup {<<TId(n)>> : n \in BoundNames}

LetScripts ==
    {bs \o <<f>> : bs \in UNION {[1..n -> BindingLines] : n \in 0..(MaxLines - 1)},
                   f \in FinalExprs}

InitLet ==
    /\ scLines \in LetScripts
    /\ scFacts = <<>>
    /\ scOut = NoOutcome
    /\ scBase = NoOutcome
    /\ scEval = NoOutcome
    /\ scParsed = NotParsed
    /\ IdleCmp /\ IdleEval /\ IdleAst /\ IdleReg /\ IdlePkg

NextLet == EvaluateScript

SpecLet == InitLet /\ [][NextLet]_vars

(***************************************************************************)
(* Specification of the built-ins registry: providers are registered one   *)
(* after the other, and functions are looked up by call and has_function   *)
(* under names in several spellings.                                       *)
(***************************************************************************)

\* a second provider of the namespace core, spelt Core, whose len is another
\* function
CoreAltProvider == [namespace |-> S_Core, builtins |-> (S_len :> "core.upper")]

\* a provider whose namespace and one of whose function names hold an
\* upper-case letter
AcmeProvider ==
    [namespace |-> S_Acme,
     builtins |-> (S_len :> "core.len") @@ (S_Upper :> "core.upper")]

Providers == {CoreBuiltinsProvider, CoreAltProvider, AcmeProvider}

QueryNamespaces == {S_core, S_CORE, S_acme, S_Acme, S_x}

QueryFunctions == {S_len, S_LEN, S_upper, S_Upper, S_x}

QueryArgs == <<StringV(S_ab)>>

InitRegistry ==
    /\ regProviders = BuiltinsRegistry_new
    /\ regHistory = <<>>
    /\ regLast = NoRegister
    /\ regQuery = NoQuery
    /\ IdleCmp /\ IdleEval /\ IdleAst /\ IdleScript /\ IdlePkg

Register(provider) ==
    LET Registered(r) ==
            /\ regProviders' = r.providers
            /\ regLast' = [tag |-> IF r.ok THEN "Ok" ELSE "Err",
                           provider |-> provider, before |-> regProviders]
    IN  /\ Len(regHistory) < MaxRegisters
        /\ Registered(BuiltinsRegistry_register(regProviders, provider))
        /\ regHistory' = Append(regHistory, provider)
        /\ UNCHANGED regQuery
        /\ UNCHANGED <<cmpVars, evVars, astVars, scVars, pkgVars>>

Call(namespace, function_name) ==
    /\ regQuery' = [api |-> "call", namespace |-> namespace,
                    function_name |-> function_name, registered |-> regHistory,
                    result |-> BuiltinsRegistry_call(regProviders, namespace,
                                                     function_name, QueryArgs)]
    /\ UNCHANGED <<regProviders, regHistory, regLast>>
    /\ UNCHANGED <<cmpVars, evVars, astVars, scVars, pkgVars>>

HasFunction(namespace, function_name) ==
    /\ regQuery' = [api |-> "has_function", namespace |-> namespace,
                    function_name |-> function_name, registered |-> regHistory,
                    result |-> BuiltinsRegistry_has_function(regProviders, namespace,
                                                             function_name)]
    /\ UNCHANGED <<regProviders, regHistory, regLast>>
    /\ UNCHANGED <<cmpVars, evVars, astVars, scVars, pkgVars>>

NextRegistry ==
    \/ \E provider \in Providers : Register(provider)
    \/ \E ns \in QueryNamespaces, fnm \in QueryFunctions : Call(ns, fnm)
    \/ \E ns \in QueryNamespaces, fnm \in QueryFunctions : HasFunction(ns, fnm)

SpecRegistry == InitRegistry /\ [][NextRegistry]_vars

(***************************************************************************)
(* Specification of script parsing: a script is drawn and parse_script is  *)
(* applied to it.                                                          *)
(***************************************************************************)
InitParse ==
    /\ scLines \in Scripts
    /\ scFacts = <<>>
    /\ scOut = NoOutcome
    /\ scBase = NoOutcome
    /\ scEval = NoOutcome
    /\ scParsed = NotParsed
    /\ IdleCmp /\ IdleEval /\ IdleAst /\ IdleReg /\ IdlePkg

ParseScript ==
    /\ scParsed.tag = "none"
    /\ scParsed' = parse_script(scLines)
    /\ UNCHANGED <<scLines, scFacts, scOut, scBase, scEval>>
    /\ UNCHANGED <<cmpVars, evVars, astVars, regVars, pkgVars>>

NextParse == ParseScript

SpecParse == InitParse /\ [][NextParse]_vars

IsNaN(v) == v.t = "Number" /\ v.nan

\* C1: for every value v without a NaN at any depth, Eq(v, v) is true and
\* Ne(v, v) is false.
C1_EqReflexive ==
    (cmpOp \in {"Eq", "Ne"} /\ cmpLeft = cmpRight /\ ~ContainsNaN(cmpLeft))
        => (cmpResult = (cmpOp = "Eq"))

\* C2: Eq on two Lists is true exactly when they have the same length and
\* pointwise Eq elements; Eq on two Maps is true exactly when they have the
\* same key set and Eq values per key.
C2_ContainerEqStructural ==
    /\ (cmpOp = "Eq" /\ cmpLeft.t = "List" /\ cmpRight.t = "List")
          => (cmpResult =
                (/\ Len(cmpLeft.items) = Len(cmpRight.items)
                 /\ \A i \in 1..Len(cmpLeft.items) :
                        compare_new_values(cmpLeft.items[i], cmpRight.items[i], "Eq")))
    /\ (cmpOp = "Eq" /\ cmpLeft.t = "Map" /\ cmpRight.t = "Map")
          => (cmpResult =
                (/\ DOMAIN cmpLeft.m = DOMAIN cmpRight.m
                 /\ \A k \in DOMAIN cmpLeft.m :
                        compare_new_values(cmpLeft.m[k], cmpRight.m[k], "Eq")))

\* C3: with a NaN operand each of Eq, Ne, Gt, Ge, Lt, Le returns false.
C3_NaNAllFalse ==
    (cmpOp \in {"Eq", "Ne", "Gt", "Ge", "Lt", "Le"} /\ (IsNaN(cmpLeft) \/ IsNaN(cmpRight)))
        => (cmpResult = FALSE)

(***************************************************************************)
(* The evaluators and the trace.                                           *)
(***************************************************************************)
PlainEvaluated == evPlain.api \in {"evaluate_with_resolver", "evaluate_with_context"}

\* C4: whenever evaluate_with_resolver / evaluate_with_context returns
\* Ok(b), evaluate_with_trace on the same rule, resolver and registry
\* returns a trace whose result is b, and whenever the non-traced evaluator
\* returns an error, evaluate_with_trace returns an error too.
C4_TracedAgrees ==
    (PlainEvaluated /\ evTraced.tag # "none")
        => /\ (evPlain.tag = "Ok"
                 => (evTraced.tag = "Ok" /\ evTraced.trace.result = evPlain.val))
           /\ (evPlain.tag = "Err" => evTraced.tag = "Err")

\* the Comparison nodes the atoms of a trace were recorded for, in order
AtomNodes(trace) == [i \in 1..Len(trace.atoms) |-> trace.atoms[i].node]

\* C5: after a traced evaluation the atoms are, in order, the Comparison
\* nodes the evaluator evaluated, those evaluated as an operand of another
\* comparison included.
C5_AtomsAreEvaluatedComparisons ==
    (evTraced.tag = "Ok") => (AtomNodes(evTraced.trace) = evTraced.log)

\* the attribute paths that are the left operand of a recorded atom
LeftAttributePaths(trace) ==
    {trace.atoms[i].node.left.object \o S_dot \o trace.atoms[i].node.left.field :
        i \in {j \in 1..Len(trace.atoms) : trace.atoms[j].node.left.k = "Attribute"}}

\* C6: after a traced evaluation facts_used() is strictly ascending, and its
\* entries are exactly the object.field paths that are the left operand of a
\* recorded atom.
C6_FactsUsedAreLeftAttributes ==
    (evTraced.tag = "Ok")
        => LET facts == facts_used(evTraced.trace) IN
           /\ \A i \in 1..Len(facts) : \A j \in 1..Len(facts) :
                  (i < j) => StrLess(facts[i], facts[j])
           /\ {facts[i] : i \in 1..Len(facts)} = LeftAttributePaths(evTraced.trace)

\* an integer literal of the text exceeds the unsigned 64-bit maximum
HasOverflowingInteger(text) ==
    \E i \in 1..Len(text) : text[i].c = "int" /\ ~parse_number(text[i].s).some

\* C7: on syntactically invalid rule text, and on a rule holding an integer
\* literal above the unsigned 64-bit maximum, every entry point that was
\* called returned an Err: none panicked.
C7_ErrNotPanic ==
    (~validate_expression(evText) \/ HasOverflowingInteger(evText))
        => /\ evPlain.tag \in {"none", "Err"}
           /\ evTraced.tag \in {"none", "Err"}

(***************************************************************************)
(* And / Or.                                                               *)
(***************************************************************************)
\* the children of a node up to the first one that errs or has the deciding
\* value; all of them when there is none
Decider(results, deciding) ==
    LET D == {j \in 1..Len(results) : ~results[j].ok \/ results[j].val = deciding}
    IN  IF D = {} THEN 0 ELSE CHOOSE j \in D : \A k \in D : j <= k

RECURSIVE ConcatLogs(_, _)
ConcatLogs(results, n) ==
    IF n = 0 THEN <<>> ELSE ConcatLogs(results, n - 1) \o results[n].log

\* what a short-circuiting And (deciding value FALSE) or Or (TRUE) returns,
\* given its children's own results
ShortCircuits(result, results, deciding) ==
    LET d == Decider(results, deciding) IN
    IF d = 0
    THEN /\ result.ok /\ result.val = ~deciding
         /\ result.log = ConcatLogs(results, Len(results))
    ELSE /\ result.log = ConcatLogs(results, d)
         /\ IF results[d].ok THEN result.ok /\ result.val = deciding
            ELSE ~result.ok /\ result.err = results[d].err

IsLogical(node) == node.k \in {"And", "Or"}

\* C8: And returns Ok(false) at its first false child and Or Ok(true) at its
\* first true child, evaluating no later child; a child that errs before any
\* deciding child makes the node return that error; an And without children
\* is true and an Or without children is false.  Both evaluators.
C8_ShortCircuit ==
    /\ (astPlain.done /\ IsLogical(astNode))
          => ShortCircuits(astPlain.r,
                           [j \in 1..Len(astNode.nodes) |->
                               evaluate_ast_with_context(astNode.nodes[j],
                                                         EvalContext_new(astFacts))],
                           astNode.k = "Or")
    /\ (astTraced.done /\ IsLogical(astNode))
          => /\ ShortCircuits(astTraced.r,
                              [j \in 1..Len(astNode.nodes) |->
                                  evaluate_ast_with_trace(astNode.nodes[j],
                                                          EvalContext_new(astFacts),
                                                          EvalTrace_new)],
                              astNode.k = "Or")
             /\ AtomNodes(astTraced.r.trace) = astTraced.r.log

\* an And whose first child is false and whose second child errs was
\* evaluated to Ok(false)
C8_Witness ==
    /\ astPlain.done
    /\ astNode.k = "And"
    /\ Len(astNode.nodes) = 2
    /\ astNode.nodes[1] = A_Bool(FALSE)
    /\ astNode.nodes[2] = A_Identifier(S_x)
    /\ astPlain.r.ok /\ ~astPlain.r.val

(***************************************************************************)
(* Scripts.                                                                *)
(***************************************************************************)
\* the same boolean, or an error of the same kind, or a panic in both
SameOutcome(o1, o2) == o1.tag = o2.tag /\ o1.val = o2.val /\ o1.err.kind = o2.err.kind

\* C9: for a script without let bindings, evaluate_script returns the same
\* outcome as evaluate on the script's non-comment, non-blank lines joined
\* by single spaces.
C9_ScriptWithoutLetIsEvaluate ==
    (scOut.tag # "none" /\ scEval.tag # "none" /\ scBase.tag = "none"
     /\ ~HasLetBinding(scLines))
        => SameOutcome(scOut, scEval)

\* a script of a comment and a two-line final expression was evaluated both
\* ways to Ok
C9_Witness ==
    /\ scLines = <<L_comment, X_attrEq1, L_andFlag>>
    /\ scOut.tag = "Ok" /\ scOut.val = TRUE
    /\ scEval.tag = "Ok" /\ scEval.val = TRUE

\* C10: after a line   let NAME = EXPR   with NAME referenced nowhere was
\* inserted before the final expression, evaluate_script returns the outcome
\* it returned before the insertion.
C10_UnreferencedLetIsNeutral ==
    (scBase.tag # "none" /\ scOut.tag # "none") => SameOutcome(scOut, scBase)

(***************************************************************************)
(* parse_script.                                                           *)
(***************************************************************************)
IsBindingLine(line) == StartsWithLet(line) /\ ContainsEq(Tail(line))

\* the script is one-line let bindings, each with an expression that parses
\* on its own, followed by lines none of which starts with let; blank and
\* comment lines anywhere
BindingsThenFinal(lines) ==
    /\ \A i \in 1..Len(lines) :
          (FinalAt(lines) = 0 \/ i < FinalAt(lines))
              => \/ IsEmptyLine(lines[i])
                 \/ IsCommentLine(lines[i])
                 \/ /\ IsBindingLine(lines[i])
                    /\ parse_expression(SplitAtEq(Tail(lines[i])).expr).tag = "Ok"
    /\ \A i \in 1..Len(lines) :
          (FinalAt(lines) # 0 /\ i >= FinalAt(lines)) => ~StartsWithLet(lines[i])

\* the lines after the last binding, joined
FinalText(lines) == JoinedLines(SubSeq(lines, FinalAt(lines), Len(lines)))

\* the bindings of the let lines, in order
LineBindings(lines) ==
    LET ls == SelectSeq(lines, IsBindingLine) IN
    [i \in 1..Len(ls) |->
        [name |-> SplitAtEq(Tail(ls[i])).name,
         expr |-> parse_expression(SplitAtEq(Tail(ls[i])).expr).node]]

\* C11: the non-comment, non-blank lines after the last binding are the
\* final expression and part of no binding: one-line bindings followed by
\* final-expression lines yield those bindings, each with its own line's
\* expression, and the joined following lines as the final expression.
C11_FinalLinesAreNoBinding ==
    (/\ scParsed.tag # "none"
     /\ BindingsThenFinal(scLines)
     /\ FinalAt(scLines) # 0
     /\ parse_expression(FinalText(scLines)).tag = "Ok")
        => /\ scParsed.tag = "Ok"
           /\ scParsed.bindings = LineBindings(scLines)
           /\ scParsed.final_expr = parse_expression(FinalText(scLines)).node

\* every line is blank, a comment or a let binding
NoFinalExpression(lines) ==
    \A i \in 1..Len(lines) :
        IsEmptyLine(lines[i]) \/ IsCommentLine(lines[i]) \/ IsBindingLine(lines[i])

\* C12: parse_script returns a ParseError when the script has no final
\* expression, and a Script when it has one and all expressions parse.
C12_FinalExpressionRequired ==
    (scParsed.tag # "none")
        => /\ NoFinalExpression(scLines)
                => (scParsed.tag = "Err" /\ scParsed.err.kind = "ParseError")
           /\ (/\ BindingsThenFinal(scLines)
               /\ FinalAt(scLines) # 0
               /\ parse_expression(FinalText(scLines)).tag = "Ok")
                => scParsed.tag = "Ok"

(***************************************************************************)
(* Identifiers and let bindings.                                           *)
(***************************************************************************)
\* the name and the expression of a one-line binding
NameOf(line) == line[2].s
ExprOf(line) == SubSeq(line, 4, Len(line))

\* the values bound to a name by the entries of stored
ValuesOf(stored, name) == SelectSeq(stored, LAMBDA e : e.name = name)

\* what an identifier stands for once the bindings of stored are made: the
\* value of the last binding of exactly that name, or the string of the name
Materialised(stored, name) ==
    IF ValuesOf(stored, name) # <<>>
    THEN ValuesOf(stored, name)[Len(ValuesOf(stored, name))].value
    ELSE StringV(name)

\* the value of an expression of BoundExprs or FinalExprs under stored
ExprValue(stored, expr) ==
    IF expr = <<T_true>> THEN BoolV(TRUE)
    ELSE IF expr = <<T_false>> THEN BoolV(FALSE)
    ELSE IF Len(expr) = 1 THEN Materialised(stored, expr[1].s)
    ELSE BoolV(Materialised(stored, expr[1].s) = StringV(expr[1].s))

\* the bindings made by the lines from i on, in declaration order, up to the
\* first one whose expression is no boolean
RECURSIVE BindInOrder(_, _, _)
BindInOrder(lines, i, stored) ==
    IF i >= Len(lines) THEN [stored |-> stored, failed |-> FALSE]
    ELSE IF ExprValue(stored, ExprOf(lines[i])).t # "Bool"
         THEN [stored |-> stored, failed |-> TRUE]
    ELSE BindInOrder(lines, i + 1,
                     Append(stored, [name |-> NameOf(lines[i]),
                                     value |-> ExprValue(stored, ExprOf(lines[i]))]))

\* C13: an identifier materialises to the value of the binding with exactly
\* that name, case included, when an earlier let introduced it, and to
\* String(name) otherwise, also when the name is bound only later; the
\* bindings are evaluated in declaration order.
C13_IdentifierResolution ==
    (scOut.tag # "none" /\ scLines \in LetScripts)
        => LET exp == BindInOrder(scLines, 1, <<>>)
               final == ExprValue(exp.stored, scLines[Len(scLines)])
           IN  /\ scOut.stored = exp.stored
               /\ IF ~exp.failed /\ final.t = "Bool"
                  THEN scOut.tag = "Ok" /\ scOut.val = final.b
                  ELSE scOut.tag = "Err" /\ scOut.err.kind = "TypeError"

\* a script was evaluated in which a binding mentions a name bound only
\* later, a later binding mentions an earlier one, and the final expression
\* mentions a name that differs from a bound one only in case
C13_Witness ==
    /\ scOut.tag # "none"
    /\ scLines = << <<T_let, TId(S_x), T_assign, TId(S_y), T_eqeq, TStr(S_y)>>,
                    <<T_let, TId(S_y), T_assign, TId(S_x)>>,
                    <<TId(S_X)>> >>
    /\ scOut.stored = << [name |-> S_x, value |-> BoolV(TRUE)],
                         [name |-> S_y, value |-> BoolV(TRUE)] >>
    /\ scOut.tag = "Err"

(***************************************************************************)
(* The built-ins registry.                                                 *)
(***************************************************************************)
\* the providers whose registration succeeded, in call order: those that no
\* earlier provider of the history equals in lowercased namespace
Accepted(history) ==
    LET First(i) ==
            \A j \in 1..(i - 1) :
                to_lowercase(history[j].namespace) # to_lowercase(history[i].namespace)
        Mark(i) == [i |-> i, p |-> history[i]]
        marked == [i \in 1..Len(history) |-> Mark(i)]
        kept == SelectSeq(marked, LAMBDA m : First(m.i))
    IN  [k \in 1..Len(kept) |-> kept[k].p]

\* a registered provider supplies a function that equals the requested one
\* after lowercasing namespace and name
Supplied(history, namespace, function_name) ==
    \E k \in 1..Len(Accepted(history)) :
        /\ to_lowercase(Accepted(history)[k].namespace) = to_lowercase(namespace)
        /\ \E f \in DOMAIN Accepted(history)[k].builtins :
              to_lowercase(f) = to_lowercase(function_name)

\* the request of regQuery found a function
Found ==
    IF regQuery.api = "has_function" THEN regQuery.result
    ELSE ~(/\ ~regQuery.result.ok
           /\ regQuery.result.err.kind = "InvalidOperation"
           /\ regQuery.result.err.ctx \in {"Unknown namespace", "Unknown function"})

\* C14: call and has_function find every function a registered provider
\* supplies, whatever the case of the letters of the requested namespace
\* and name, and fail only when no registered function equals the
\* requested one after lowercasing.
C14_LookupIgnoresCase ==
    (regQuery.api # "none")
        => (Found <=> Supplied(regQuery.registered, regQuery.namespace,
                               regQuery.function_name))

\* the function table the first provider of a lowercased namespace supplied
FirstTables(history) ==
    [ns \in {to_lowercase(history[i].namespace) : i \in 1..Len(history)} |->
        history[CHOOSE i \in 1..Len(history) :
                    /\ to_lowercase(history[i].namespace) = ns
                    /\ \A j \in 1..(i - 1) : to_lowercase(history[j].namespace) # ns].builtins]

\* C15: registering a provider whose lowercased namespace is registered
\* already returns an error and leaves the registry as it was; after any
\* sequence of register calls each namespace maps to the functions of the
\* first provider that registered it.
C15_FirstRegistrationWins ==
    /\ regProviders = FirstTables(regHistory)
    /\ (regLast.tag # "none")
          => IF to_lowercase(regLast.provider.namespace) \in DOMAIN regLast.before
             THEN regLast.tag = "Err" /\ regProviders = regLast.before
             ELSE regLast.tag = "Ok"

\* core was registered, then a second provider of the namespace Core with
\* another len was turned down
C15_Witness ==
    /\ regHistory = <<CoreBuiltinsProvider, CoreAltProvider>>
    /\ regLast.tag = "Err"
    /\ regProviders[S_core][S_len] = "core.len"

(***************************************************************************)
(* Function calls in rules.                                                *)
(***************************************************************************)
\* the outcome is the error InvalidOperation, as the entry point reports it
IsInvalidOperation(o) ==
    /\ o.tag = "Err"
    /\ o.err.kind = IF o.api = "evaluate" THEN "EvaluationError" ELSE "InvalidOperation"

\* C16: a function call evaluated without a registry is an InvalidOperation
\* error; with a registry a call without namespace goes to the namespace
\* core, and a call to a namespace that is not registered or to a function
\* the namespace does not have is an InvalidOperation error.
C16_FunctionCallDispatch ==
    (/\ evPlain.api \in {"evaluate_with_resolver", "evaluate", "evaluate_with_context"}
     /\ evText \in {X_callBare, X_callCmp, X_callAcme, X_callNoFn})
        => IF evPlain.api # "evaluate_with_context"
           THEN /\ IsInvalidOperation(evPlain)
                /\ evPlain.err.ctx = "Function calls not supported without built-ins registry"
           ELSE IF evText \in {X_callBare, X_callCmp} /\ S_core \in DOMAIN evRegistry.val
                THEN evPlain.tag = "Ok" /\ evPlain.val = TRUE
           ELSE /\ IsInvalidOperation(evPlain)
                /\ evPlain.err.ctx =
                      IF evText = X_callNoFn /\ S_core \in DOMAIN evRegistry.val
                      THEN "Unknown function" ELSE "Unknown namespace"

====
